---- MODULE Spec2Model ----
(***************************************************************************)
(* A model of minecraft-manager's server.js: the session gate, the server  *)
(* registry, the server-scoped file gateway and the PM2 process            *)
(* supervisor.  A request handler is one action; the filesystem, the PM2   *)
(* process list and the session store are the state.  Where requests       *)
(* overlap, a handler is the sequence of its callbacks, one action each.   *)
(*                                                                         *)
(* Paths.  An absolute path is the sequence of its segments (<<>> is "/"). *)
(* A relative path or a filename taken from a request is the sequence of   *)
(* segments of the string, split at "/"; it may hold "." and "..".         *)
(* path.join concatenates and normalizes; String.startsWith compares the   *)
(* characters of the rendered strings.                                     *)
(***************************************************************************)
EXTENDS Naturals, Sequences, FiniteSets, TLC

VARIABLES fs,        \* the filesystem: absolute path -> "dir" or a file's content
          procs,     \* PM2's process list: sequence of [name, status]
          session,   \* the browser session of the store: [userId, username]
          last,      \* the most recent request and its outcome (history)
          inflight,  \* the requests being handled: slot -> [op, pc, ...]
          handle     \* the connection of the pm2 module to the PM2 daemon

vars == <<fs, procs, session, last, inflight, handle>>

----------------------------------------------------------------------------
(* Strings *)

\* The characters of the names the model uses.
Chars(s) ==
  CASE s = "app"               -> <<"a","p","p">>
    [] s = "servers"           -> <<"s","e","r","v","e","r","s">>
    [] s = "s1"                -> <<"s","1">>
    [] s = "s1-evil"           -> <<"s","1","-","e","v","i","l">>
    [] s = "s2"                -> <<"s","2">>
    [] s = "plugins"           -> <<"p","l","u","g","i","n","s">>
    [] s = "logs"              -> <<"l","o","g","s">>
    [] s = "world"             -> <<"w","o","r","l","d">>
    [] s = "server.properties" -> <<"s","e","r","v","e","r",".","p","r","o","p">>
    [] s = "config.yml"        -> <<"c","o","n","f","i","g",".","y","m","l">>
    [] s = "bukkit.yml"        -> <<"b","u","k","k","i","t",".","y","m","l">>
    [] s = "server.log"        -> <<"s","e","r","v","e","r",".","l","o","g">>
    [] s = "f"                 -> <<"f">>
    [] s = "g"                 -> <<"g">>
    [] s = "d"                 -> <<"d">>
    [] s = "api"               -> <<"a","p","i">>
    [] s = "a.zip"             -> <<"a",".","z","i","p">>
    [] s = "A.ZIP"             -> <<"A",".","Z","I","P">>
    [] s = "."                 -> <<".">>
    [] s = ".."                -> <<".",".">>
    [] OTHER                   -> <<s>>

\* String.prototype.startsWith on character sequences.
startsWith(str, prefix) ==
  /\ Len(prefix) <= Len(str)
  /\ \A i \in 1..Len(prefix) : str[i] = prefix[i]

RECURSIVE StrOfSegs(_)
StrOfSegs(p) ==
  IF p = <<>> THEN <<>>
  ELSE <<"/">> \o Chars(Head(p)) \o StrOfSegs(Tail(p))

\* The string of an absolute path: "/" for the root, "/a/b" otherwise.
StrOf(p) == IF p = <<>> THEN <<"/">> ELSE StrOfSegs(p)

----------------------------------------------------------------------------
(* path *)

\* path.normalize on the segments of an absolute path: "" and "." are
\* dropped, ".." removes the segment before it and is dropped at the root.
RECURSIVE NormalizeFrom(_, _)
NormalizeFrom(stack, rest) ==
  IF rest = <<>> THEN stack
  ELSE LET s == Head(rest) IN
       IF s = "" \/ s = "." THEN NormalizeFrom(stack, Tail(rest))
       ELSE IF s = ".."
            THEN NormalizeFrom(IF stack = <<>> THEN <<>>
                               ELSE SubSeq(stack, 1, Len(stack) - 1), Tail(rest))
            ELSE NormalizeFrom(Append(stack, s), Tail(rest))

\* path.join(base, rel) for an absolute base.
join(base, rel) == NormalizeFrom(<<>>, base \o rel)

\* path.dirname of an absolute path.
dirname(p) == IF p = <<>> THEN <<>> ELSE SubSeq(p, 1, Len(p) - 1)

\* p is r or lies below r, by path segments.
Within(p, r) == Len(r) <= Len(p) /\ SubSeq(p, 1, Len(r)) = r

__dirname == <<"app">>
serversDir == join(__dirname, <<"servers">>)

----------------------------------------------------------------------------
(* fs: the filesystem calls the handlers make.  A filesystem f maps each   *)
(* existing absolute path to DIR or to the content of the file there.  A   *)
(* call that changes the filesystem returns [ok, fs]; ok = FALSE is the    *)
(* rejected promise or thrown error, with the filesystem as it was.        *)

DIR == "dir"

existsSync(f, p) == p \in DOMAIN f
IsDir(f, p) == p \in DOMAIN f /\ f[p] = DIR
IsFile(f, p) == p \in DOMAIN f /\ f[p] # DIR

Prefixes(p) == {SubSeq(p, 1, i) : i \in 0..Len(p)}
Below(f, p) == {q \in DOMAIN f : Within(q, p)}
Children(f, p) == {q \in DOMAIN f : Len(q) = Len(p) + 1 /\ Within(q, p)}

Ok(f) == [ok |-> TRUE, fs |-> f]
Err(f) == [ok |-> FALSE, fs |-> f]

\* fs.mkdir(p, {recursive: true}): creates p and its missing ancestors;
\* fails when a component of p is a file.
mkdir(f, p) ==
  IF \E q \in Prefixes(p) : IsFile(f, q) THEN Err(f)
  ELSE Ok([q \in DOMAIN f \cup Prefixes(p) |-> IF q \in DOMAIN f THEN f[q] ELSE DIR])

\* fs.writeFile(p, content): replaces the file; the parent must be a
\* directory and p must not be one.
writeFile(f, p, content) ==
  IF p = <<>> \/ ~IsDir(f, dirname(p)) \/ IsDir(f, p) THEN Err(f)
  ELSE Ok([q \in DOMAIN f \cup {p} |-> IF q = p THEN content ELSE f[q]])

\* fs.unlink(p): removes a file.
unlink(f, p) ==
  IF ~IsFile(f, p) THEN Err(f)
  ELSE Ok([q \in DOMAIN f \ {p} |-> f[q]])

\* fs.promises.rm(p, {recursive: true, force: true}): removes the subtree.
rm(f, p) == Ok([q \in DOMAIN f \ Below(f, p) |-> f[q]])

\* fs.rename(a, b), rename(2): moves the subtree at a to b.  A file
\* replaces a file, a directory replaces an empty directory.
rename(f, a, b) ==
  IF \/ ~existsSync(f, a)
     \/ b = <<>> \/ ~IsDir(f, dirname(b))
     \/ (IsDir(f, a) /\ a # b /\ Within(b, a))
     \/ (a # b /\ Within(a, b))
     \/ (IsDir(f, a) /\ IsFile(f, b))
     \/ (IsFile(f, a) /\ IsDir(f, b))
     \/ (IsDir(f, a) /\ a # b /\ IsDir(f, b) /\ Children(f, b) # {})
  THEN Err(f)
  ELSE IF a = b THEN Ok(f)
  ELSE LET moved == {b \o SubSeq(q, Len(a) + 1, Len(q)) : q \in Below(f, a)}
           kept  == (DOMAIN f \ Below(f, a)) \ Below(f, b)
       IN Ok([q \in kept \cup moved |->
                IF q \in moved THEN f[a \o SubSeq(q, Len(b) + 1, Len(q))]
                ELSE f[q]])

\* fs.copyFile(a, b): copies a file over b.
copyFile(f, a, b) ==
  IF ~IsFile(f, a) \/ b = <<>> \/ ~IsDir(f, dirname(b)) \/ IsDir(f, b) THEN Err(f)
  ELSE Ok([q \in DOMAIN f \cup {b} |-> IF q = b THEN f[a] ELSE f[q]])

\* The entries of a set of paths in a fixed order (readdir's order).
RECURSIVE SeqOf(_)
SeqOf(S) ==
  IF S = {} THEN <<>>
  ELSE LET x == CHOOSE y \in S : TRUE IN <<x>> \o SeqOf(S \ {x})

\* copyDirectory(src, dest): readdir(src), mkdir(dest), then every entry
\* in turn, directories recursively; the first failing call rejects.
RECURSIVE copyDirectory(_, _, _), copyEntries(_, _, _, _)
copyDirectory(f, src, dest) ==
  IF ~IsDir(f, src) THEN Err(f)
  ELSE LET entries == SeqOf(Children(f, src))
           made == mkdir(f, dest)
       IN IF ~made.ok THEN made ELSE copyEntries(made.fs, src, dest, entries)

copyEntries(f, src, dest, entries) ==
  IF entries = <<>> THEN Ok(f)
  ELSE LET srcPath == Head(entries)
           destPath == Append(dest, srcPath[Len(srcPath)])
           done == IF IsDir(f, srcPath) THEN copyDirectory(f, srcPath, destPath)
                   ELSE copyFile(f, srcPath, destPath)
       IN IF ~done.ok THEN done ELSE copyEntries(done.fs, src, dest, Tail(entries))

----------------------------------------------------------------------------
(* The outcome of a handler: the HTTP status and message, the filesystem   *)
(* (or the process list) it leaves, the calls it made in order, and the    *)
(* payload of a success.  What an outcome does not name is left as it was. *)
(* A call is [call, path]; "check" is the handler's containment test of    *)
(* path, every other call is a filesystem call on path.                    *)

Call(call, path) == [call |-> call, path |-> path]

Res(status, msg, f, calls, out) ==
  [status |-> status, msg |-> msg, fs |-> f, calls |-> calls, out |-> out,
   handler |-> TRUE]

\* The outcome of a supervisor handler, which leaves PM2's list as ps.
ResP(status, msg, ps, calls, out) ==
  [status |-> status, msg |-> msg, procs |-> ps, calls |-> calls, out |-> out,
   handler |-> TRUE]

NoOut == {}

\* The security check of the server-scoped routes:
\* filePath.startsWith(serverPath).
contained(filePath, serverPath) == startsWith(StrOf(filePath), StrOf(serverPath))

\* One DirectoryEntry of a listing.
Entry(f, q) == [name |-> q[Len(q)], type |-> IF f[q] = DIR THEN "Pasta" ELSE "Arquivo"]

\* GET /api/servers/:serverName/files?path=
\* A listing that answers 404 for a directory that does not exist.
getFiles_no_create(f, serverName, relativePath) ==
  LET serverPath == join(serversDir, <<serverName>>)
      targetDir == join(serverPath, relativePath)
      c1 == <<Call("check", targetDir)>>
      c2 == Append(c1, Call("existsSync", serverPath))
      c3 == Append(c2, Call("existsSync", targetDir))
      c5 == Append(c3, Call("readdir", targetDir))
      files == SeqOf(Children(f, targetDir))
      c6 == c5 \o [i \in 1..Len(files) |-> Call("stat", files[i])]
  IN IF ~contained(targetDir, serverPath) THEN Res(400, "Invalid path", f, c1, NoOut)
     ELSE IF ~existsSync(f, serverPath) THEN Res(404, "Server not found", f, c2, NoOut)
     ELSE IF ~existsSync(f, targetDir) THEN Res(404, "Directory not found", f, c3, NoOut)
     ELSE IF ~IsDir(f, targetDir) THEN Res(500, "Failed to read directory", f, c5, NoOut)
     ELSE Res(200, "files", f, c6, {Entry(f, q) : q \in Children(f, targetDir)})

\* GET /api/servers/:serverName/files?path=
getFiles(f, serverName, relativePath) ==
  LET serverPath == join(serversDir, <<serverName>>)
      targetDir == join(serverPath, relativePath)
      c1 == <<Call("check", targetDir)>>
      c2 == Append(c1, Call("existsSync", serverPath))
      c3 == Append(c2, Call("existsSync", targetDir))
      made == IF existsSync(f, targetDir) THEN Ok(f) ELSE mkdir(f, targetDir)
      c4 == IF existsSync(f, targetDir) THEN c3 ELSE Append(c3, Call("mkdir", targetDir))
      c5 == Append(c4, Call("readdir", targetDir))
      files == SeqOf(Children(made.fs, targetDir))
      c6 == c5 \o [i \in 1..Len(files) |-> Call("stat", files[i])]
  IN IF ~contained(targetDir, serverPath) THEN Res(400, "Invalid path", f, c1, NoOut)
     ELSE IF ~existsSync(f, serverPath) THEN Res(404, "Server not found", f, c2, NoOut)
     ELSE IF ~made.ok THEN Res(500, "Failed to read directory", made.fs, c4, NoOut)
     ELSE IF ~IsDir(made.fs, targetDir)
          THEN Res(500, "Failed to read directory", made.fs, c5, NoOut)
     ELSE Res(200, "files", made.fs, c6, {Entry(made.fs, q) : q \in Children(made.fs, targetDir)})

\* GET /api/servers/:serverName/files/:filename?path=
getFile(f, serverName, relativePath, filename) ==
  LET serverPath == join(serversDir, <<serverName>>)
      targetDir == join(serverPath, relativePath)
      filePath == join(targetDir, filename)
      c1 == <<Call("check", filePath)>>
      c2 == Append(c1, Call("existsSync", serverPath))
      c3 == Append(c2, Call("existsSync", filePath))
      c4 == Append(c3, Call("readFile", filePath))
  IN IF ~contained(filePath, serverPath) THEN Res(400, "Invalid path", f, c1, NoOut)
     ELSE IF ~existsSync(f, serverPath) THEN Res(404, "Server not found", f, c2, NoOut)
     ELSE IF ~existsSync(f, filePath) THEN Res(404, "File not found", f, c3, NoOut)
     ELSE IF IsDir(f, filePath) THEN Res(500, "Failed to read file", f, c4, NoOut)
     ELSE Res(200, "content", f, c4, {f[filePath]})

\* postFile with the parent directories made before the write.
postFile_makes_parents(f, serverName, relativePath, filename, content) ==
  LET serverPath == join(serversDir, <<serverName>>)
      targetDir == join(serverPath, relativePath)
      filePath == join(targetDir, filename)
      c1 == <<Call("check", filePath)>>
      c2 == Append(c1, Call("existsSync", serverPath))
      c3 == Append(c2, Call("writeFile", filePath))
      made == mkdir(f, dirname(filePath))
      written == writeFile(made.fs, filePath, content)
  IN IF ~contained(filePath, serverPath) THEN Res(400, "Invalid path", f, c1, NoOut)
     ELSE IF ~existsSync(f, serverPath) THEN Res(404, "Server not found", f, c2, NoOut)
     ELSE IF ~written.ok THEN Res(500, "Failed to save file", f, c3, NoOut)
     ELSE Res(200, "File saved successfully", written.fs, c3, NoOut)

\* POST /api/servers/:serverName/files/:filename?path=  {content}
postFile(f, serverName, relativePath, filename, content) ==
  LET serverPath == join(serversDir, <<serverName>>)
      targetDir == join(serverPath, relativePath)
      filePath == join(targetDir, filename)
      c1 == <<Call("check", filePath)>>
      c2 == Append(c1, Call("existsSync", serverPath))
      c3 == Append(c2, Call("writeFile", filePath))
      written == writeFile(f, filePath, content)
  IN IF ~contained(filePath, serverPath) THEN Res(400, "Invalid path", f, c1, NoOut)
     ELSE IF ~existsSync(f, serverPath) THEN Res(404, "Server not found", f, c2, NoOut)
     ELSE IF ~written.ok THEN Res(500, "Failed to save file", f, c3, NoOut)
     ELSE Res(200, "File saved successfully", written.fs, c3, NoOut)

\* DELETE /api/servers/:serverName/files/:filename?path=
deleteFile(f, serverName, relativePath, filename) ==
  LET serverPath == join(serversDir, <<serverName>>)
      targetDir == join(serverPath, relativePath)
      filePath == join(targetDir, filename)
      c1 == <<Call("check", filePath)>>
      c2 == Append(c1, Call("existsSync", serverPath))
      c3 == Append(c2, Call("existsSync", filePath))
      c4 == Append(c3, Call("stat", filePath))
      c5 == Append(c4, Call(IF IsDir(f, filePath) THEN "rm" ELSE "unlink", filePath))
      removed == IF IsDir(f, filePath) THEN rm(f, filePath) ELSE unlink(f, filePath)
  IN IF ~contained(filePath, serverPath) THEN Res(400, "Invalid path", f, c1, NoOut)
     ELSE IF ~existsSync(f, serverPath) THEN Res(404, "Server not found", f, c2, NoOut)
     ELSE IF ~existsSync(f, filePath) THEN Res(404, "File not found", f, c3, NoOut)
     ELSE IF ~removed.ok THEN Res(500, "Failed to delete item", f, c5, NoOut)
     ELSE Res(200, "Item deleted successfully", removed.fs, c5, NoOut)

\* postDirectories with a mkdir that refuses an existing path.
postDirectories_refuses_existing(f, serverName, relativePath, name) ==
  LET serverPath == join(serversDir, <<serverName>>)
      targetDir == join(serverPath, relativePath)
      newDirPath == join(targetDir, name)
      c1 == <<Call("check", newDirPath)>>
      c2 == Append(c1, Call("existsSync", serverPath))
      c3 == Append(c2, Call("mkdir", newDirPath))
      made == IF existsSync(f, newDirPath) THEN Err(f) ELSE mkdir(f, newDirPath)
  IN IF ~contained(newDirPath, serverPath) THEN Res(400, "Invalid path", f, c1, NoOut)
     ELSE IF ~existsSync(f, serverPath) THEN Res(404, "Server not found", f, c2, NoOut)
     ELSE IF ~made.ok THEN Res(500, "Failed to create directory", f, c3, NoOut)
     ELSE Res(200, "Directory created successfully", made.fs, c3, NoOut)

\* POST /api/servers/:serverName/directories  {name, path}
postDirectories(f, serverName, relativePath, name) ==
  LET serverPath == join(serversDir, <<serverName>>)
      targetDir == join(serverPath, relativePath)
      newDirPath == join(targetDir, name)
      c1 == <<Call("check", newDirPath)>>
      c2 == Append(c1, Call("existsSync", serverPath))
      c3 == Append(c2, Call("mkdir", newDirPath))
      made == mkdir(f, newDirPath)
  IN IF ~contained(newDirPath, serverPath) THEN Res(400, "Invalid path", f, c1, NoOut)
     ELSE IF ~existsSync(f, serverPath) THEN Res(404, "Server not found", f, c2, NoOut)
     ELSE IF ~made.ok THEN Res(500, "Failed to create directory", f, c3, NoOut)
     ELSE Res(200, "Directory created successfully", made.fs, c3, NoOut)

----------------------------------------------------------------------------
(* Uploads and archives *)

\* The working directory of the node process, multer's destination '.'.
cwd == __dirname

\* multer.diskStorage: every file of the request is written to
\* destination/filename before the route's handler runs.
RECURSIVE stage(_, _)
stage(f, files) ==
  IF files = <<>> THEN Ok(f)
  ELSE LET w == writeFile(f, join(cwd, <<Head(files).originalname>>), Head(files).content)
       IN IF ~w.ok THEN Err(f) ELSE stage(w.fs, Tail(files))

stageCalls(files) ==
  [i \in 1..Len(files) |-> Call("stage", join(cwd, <<files[i].originalname>>))]

\* The loop of the upload handler: rename each staged file into targetDir.
RECURSIVE relocate(_, _, _)
relocate(f, targetDir, files) ==
  IF files = <<>> THEN Ok(f)
  ELSE LET r == rename(f, join(cwd, <<Head(files).originalname>>),
                       join(targetDir, <<Head(files).originalname>>))
       IN IF ~r.ok THEN r ELSE relocate(r.fs, targetDir, Tail(files))

\* POST /api/servers/:serverName/upload (multipart: files, path), the
\* handler after upload.array('file') has staged the files into f.
upload(f, serverName, relativePath, files) ==
  LET serverPath == join(serversDir, <<serverName>>)
      targetDir == join(serverPath, relativePath)
      c0 == stageCalls(files)
      c1 == Append(c0, Call("check", targetDir))
      c2 == Append(c1, Call("existsSync", serverPath))
      c3 == c2 \o [i \in 1..2 * Len(files) |->
                     IF i % 2 = 1
                     THEN Call("unstage", join(cwd, <<files[(i + 1) \div 2].originalname>>))
                     ELSE Call("renameTo", join(targetDir, <<files[i \div 2].originalname>>))]
      moved == relocate(f, targetDir, files)
  IN IF files = <<>> THEN Res(400, "No file uploaded", f, c0, NoOut)
     ELSE IF ~contained(targetDir, serverPath) THEN Res(400, "Invalid path", f, c1, NoOut)
     ELSE IF ~existsSync(f, serverPath) THEN Res(404, "Server not found", f, c2, NoOut)
     ELSE IF ~moved.ok THEN Res(500, "Failed to upload file", moved.fs, c3, NoOut)
     ELSE Res(200, "enviado(s) com sucesso", moved.fs, c3, {Len(files)})

\* The content of a file that is a ZIP archive, and the one entry the
\* archive holds.
ZIP == "zip"
zipEntryName == "f"
zipEntryContent == "unzipped"

toLowerCase(str) ==
  [i \in 1..Len(str) |->
     CASE str[i] = "A" -> "a" [] str[i] = "Z" -> "z" [] str[i] = "I" -> "i"
       [] str[i] = "P" -> "p" [] OTHER -> str[i]]

endsWith(str, suffix) ==
  /\ Len(suffix) <= Len(str)
  /\ \A i \in 1..Len(suffix) : str[Len(str) - Len(suffix) + i] = suffix[i]

\* The string of a filename parameter given by its segments.
RECURSIVE RelStr(_)
RelStr(segs) ==
  IF segs = <<>> THEN <<>>
  ELSE IF Len(segs) = 1 THEN Chars(Head(segs))
  ELSE Chars(Head(segs)) \o <<"/">> \o RelStr(Tail(segs))

\* new AdmZip(filePath).extractAllTo(targetDir, true)
extractAllTo(f, filePath, targetDir) ==
  IF ~IsFile(f, filePath) \/ f[filePath] # ZIP THEN Err(f)
  ELSE LET made == mkdir(f, targetDir)
       IN IF ~made.ok THEN made
          ELSE writeFile(made.fs, join(targetDir, <<zipEntryName>>), zipEntryContent)

\* An extract that does not test the filename's extension.
extract_any_name(f, serverName, relativePath, filename) ==
  LET serverPath == join(serversDir, <<serverName>>)
      targetDir == join(serverPath, relativePath)
      filePath == join(targetDir, filename)
      c1 == <<Call("check", filePath)>>
      c2 == Append(c1, Call("existsSync", serverPath))
      c3 == Append(c2, Call("existsSync", filePath))
      c4 == c3 \o <<Call("readFile", filePath),
                    Call("writeFile", join(targetDir, <<zipEntryName>>))>>
      done == extractAllTo(f, filePath, targetDir)
  IN IF ~contained(filePath, serverPath) THEN Res(400, "Invalid path", f, c1, NoOut)
     ELSE IF ~existsSync(f, serverPath) THEN Res(404, "Server not found", f, c2, NoOut)
     ELSE IF ~existsSync(f, filePath) THEN Res(404, "File not found", f, c3, NoOut)
     ELSE IF ~done.ok THEN Res(500, "Failed to extract ZIP file", done.fs, c4, NoOut)
     ELSE Res(200, "ZIP file extracted successfully", done.fs, c4, NoOut)

\* POST /api/servers/:serverName/extract/:filename  {path}
extract(f, serverName, relativePath, filename) ==
  LET serverPath == join(serversDir, <<serverName>>)
      targetDir == join(serverPath, relativePath)
      filePath == join(targetDir, filename)
      c1 == <<Call("check", filePath)>>
      c2 == Append(c1, Call("existsSync", serverPath))
      c3 == Append(c2, Call("existsSync", filePath))
      c4 == c3 \o <<Call("readFile", filePath),
                    Call("writeFile", join(targetDir, <<zipEntryName>>))>>
      done == extractAllTo(f, filePath, targetDir)
  IN IF ~contained(filePath, serverPath) THEN Res(400, "Invalid path", f, c1, NoOut)
     ELSE IF ~existsSync(f, serverPath) THEN Res(404, "Server not found", f, c2, NoOut)
     ELSE IF ~existsSync(f, filePath) THEN Res(404, "File not found", f, c3, NoOut)
     ELSE IF ~endsWith(toLowerCase(RelStr(filename)), <<".","z","i","p">>)
          THEN Res(400, "File is not a ZIP archive", f, c3, NoOut)
     ELSE IF ~done.ok THEN Res(500, "Failed to extract ZIP file", done.fs, c4, NoOut)
     ELSE Res(200, "ZIP file extracted successfully", done.fs, c4, NoOut)

\* GET /api/servers/:serverName/download/:filename?path=
download(f, serverName, relativePath, filename) ==
  LET serverPath == join(serversDir, <<serverName>>)
      targetDir == join(serverPath, relativePath)
      filePath == join(targetDir, filename)
      c1 == <<Call("check", filePath)>>
      c2 == Append(c1, Call("existsSync", serverPath))
      c3 == Append(c2, Call("existsSync", filePath))
      c4 == Append(c3, Call("readFile", filePath))
  IN IF ~contained(filePath, serverPath) THEN Res(400, "Invalid path", f, c1, NoOut)
     ELSE IF ~existsSync(f, serverPath) THEN Res(404, "Server not found", f, c2, NoOut)
     ELSE IF ~existsSync(f, filePath) THEN Res(404, "File not found", f, c3, NoOut)
     ELSE IF IsDir(f, filePath) THEN Res(500, "Failed to download file", f, c4, NoOut)
     ELSE Res(200, "download", f, c4, {f[filePath]})

----------------------------------------------------------------------------
(* Move, copy, rename *)

\* move without the check of the destination file.
move_without_check(f, serverName, relativePath, filename, destinationPath) ==
  LET serverPath == join(serversDir, <<serverName>>)
      sourceDir == join(serverPath, relativePath)
      destDir == join(serverPath, destinationPath)
      sourceFilePath == join(sourceDir, filename)
      destFilePath == join(destDir, filename)
      c1 == <<Call("check", sourceFilePath), Call("check", destFilePath)>>
      c6 == c1 \o <<Call("renameFrom", sourceFilePath), Call("renameTo", destFilePath)>>
      moved == rename(f, sourceFilePath, destFilePath)
  IN IF ~contained(sourceFilePath, serverPath) \/ ~contained(destFilePath, serverPath)
     THEN Res(400, "Invalid path", f, c1, NoOut)
     ELSE IF ~existsSync(f, serverPath) THEN Res(404, "Server not found", f, c1, NoOut)
     ELSE IF ~existsSync(f, sourceFilePath) THEN Res(404, "Source file not found", f, c1, NoOut)
     ELSE IF ~existsSync(f, destDir)
          THEN Res(404, "Destination directory not found", f, c1, NoOut)
     ELSE IF ~moved.ok THEN Res(500, "Failed to move file", f, c6, NoOut)
     ELSE Res(200, "File moved successfully", moved.fs, c6, NoOut)

\* POST /api/servers/:serverName/move  {filename, destinationPath, currentPath}
move(f, serverName, relativePath, filename, destinationPath) ==
  LET serverPath == join(serversDir, <<serverName>>)
      sourceDir == join(serverPath, relativePath)
      destDir == join(serverPath, destinationPath)
      sourceFilePath == join(sourceDir, filename)
      destFilePath == join(destDir, filename)
      c1 == <<Call("check", sourceFilePath), Call("check", destFilePath)>>
      c2 == Append(c1, Call("existsSync", serverPath))
      c3 == Append(c2, Call("existsSync", sourceFilePath))
      c4 == Append(c3, Call("existsSync", destDir))
      c5 == Append(c4, Call("existsSync", destFilePath))
      c6 == c5 \o <<Call("renameFrom", sourceFilePath), Call("renameTo", destFilePath)>>
      moved == rename(f, sourceFilePath, destFilePath)
  IN IF ~contained(sourceFilePath, serverPath) \/ ~contained(destFilePath, serverPath)
     THEN Res(400, "Invalid path", f, c1, NoOut)
     ELSE IF ~existsSync(f, serverPath) THEN Res(404, "Server not found", f, c2, NoOut)
     ELSE IF ~existsSync(f, sourceFilePath) THEN Res(404, "Source file not found", f, c3, NoOut)
     ELSE IF ~existsSync(f, destDir)
          THEN Res(404, "Destination directory not found", f, c4, NoOut)
     ELSE IF existsSync(f, destFilePath)
          THEN Res(400, "File already exists in destination", f, c5, NoOut)
     ELSE IF ~moved.ok THEN Res(500, "Failed to move file", f, c6, NoOut)
     ELSE Res(200, "File moved successfully", moved.fs, c6, NoOut)

\* The loop of move-multiple: one result per filename, in request order;
\* acc is [fs, calls, results].
RECURSIVE moveEach(_, _, _, _)
moveEach(acc, sourceDir, destDir, filenames) ==
  IF filenames = <<>> THEN acc
  ELSE LET filename == Head(filenames)
           sourceFilePath == join(sourceDir, filename)
           destFilePath == join(destDir, filename)
           f == acc.fs
           moved == rename(f, sourceFilePath, destFilePath)
           k1 == Append(acc.calls, Call("existsSync", sourceFilePath))
           k2 == Append(k1, Call("existsSync", destFilePath))
           k3 == k2 \o <<Call("renameFrom", sourceFilePath), Call("renameTo", destFilePath)>>
           step ==
             IF ~existsSync(f, sourceFilePath)
             THEN [fs |-> f, calls |-> k1,
                   results |-> Append(acc.results,
                     [filename |-> filename, status |-> "error",
                      message |-> "Source file not found"])]
             ELSE IF existsSync(f, destFilePath)
             THEN [fs |-> f, calls |-> k2,
                   results |-> Append(acc.results,
                     [filename |-> filename, status |-> "error",
                      message |-> "File already exists in destination"])]
             ELSE IF ~moved.ok
             THEN [fs |-> f, calls |-> k3,
                   results |-> Append(acc.results,
                     [filename |-> filename, status |-> "error",
                      message |-> "Failed to move file"])]
             ELSE [fs |-> moved.fs, calls |-> k3,
                   results |-> Append(acc.results,
                     [filename |-> filename, status |-> "success",
                      message |-> "File moved successfully"])]
       IN moveEach(step, sourceDir, destDir, Tail(filenames))

\* move-multiple that gives up the request when one filename fails.
moveMultiple_all_or_nothing(f, serverName, relativePath, filenames, destinationPath) ==
  LET serverPath == join(serversDir, <<serverName>>)
      sourceDir == join(serverPath, relativePath)
      destDir == join(serverPath, destinationPath)
      c1 == <<Call("check", sourceDir), Call("check", destDir)>>
      c2 == Append(c1, Call("existsSync", serverPath))
      c3 == Append(c2, Call("existsSync", destDir))
      done == moveEach([fs |-> f, calls |-> c3, results |-> <<>>],
                       sourceDir, destDir, filenames)
  IN IF ~contained(sourceDir, serverPath) \/ ~contained(destDir, serverPath)
     THEN Res(400, "Invalid path", f, c1, NoOut)
     ELSE IF ~existsSync(f, serverPath) THEN Res(404, "Server not found", f, c2, NoOut)
     ELSE IF ~existsSync(f, destDir)
          THEN Res(404, "Destination directory not found", f, c3, NoOut)
     ELSE IF \E i \in 1..Len(done.results) : done.results[i].status = "error"
          THEN Res(500, "Failed to move files", f, done.calls, NoOut)
     ELSE Res(200, "Files move operation completed", done.fs, done.calls, {done.results})

\* POST /api/servers/:serverName/move-multiple  {filenames, destinationPath, currentPath}
moveMultiple(f, serverName, relativePath, filenames, destinationPath) ==
  LET serverPath == join(serversDir, <<serverName>>)
      sourceDir == join(serverPath, relativePath)
      destDir == join(serverPath, destinationPath)
      c1 == <<Call("check", sourceDir), Call("check", destDir)>>
      c2 == Append(c1, Call("existsSync", serverPath))
      c3 == Append(c2, Call("existsSync", destDir))
      done == moveEach([fs |-> f, calls |-> c3, results |-> <<>>],
                       sourceDir, destDir, filenames)
  IN IF ~contained(sourceDir, serverPath) \/ ~contained(destDir, serverPath)
     THEN Res(400, "Invalid path", f, c1, NoOut)
     ELSE IF ~existsSync(f, serverPath) THEN Res(404, "Server not found", f, c2, NoOut)
     ELSE IF ~existsSync(f, destDir)
          THEN Res(404, "Destination directory not found", f, c3, NoOut)
     ELSE Res(200, "Files move operation completed", done.fs, done.calls, {done.results})

\* POST /api/servers/:serverName/copy  {filename, destinationPath, currentPath}
copy(f, serverName, relativePath, filename, destinationPath) ==
  LET serverPath == join(serversDir, <<serverName>>)
      sourceDir == join(serverPath, relativePath)
      destDir == join(serverPath, destinationPath)
      sourceFilePath == join(sourceDir, filename)
      destFilePath == join(destDir, filename)
      c1 == <<Call("check", sourceFilePath), Call("check", destFilePath)>>
      c2 == Append(c1, Call("existsSync", serverPath))
      c3 == Append(c2, Call("existsSync", sourceFilePath))
      c4 == Append(c3, Call("existsSync", destDir))
      c5 == Append(c4, Call("existsSync", destFilePath))
      c6 == c5 \o <<Call("stat", sourceFilePath), Call("copyFrom", sourceFilePath),
                    Call("copyTo", destFilePath)>>
      copied == IF IsDir(f, sourceFilePath)
                THEN copyDirectory(f, sourceFilePath, destFilePath)
                ELSE copyFile(f, sourceFilePath, destFilePath)
  IN IF ~contained(sourceFilePath, serverPath) \/ ~contained(destFilePath, serverPath)
     THEN Res(400, "Invalid path", f, c1, NoOut)
     ELSE IF ~existsSync(f, serverPath) THEN Res(404, "Server not found", f, c2, NoOut)
     ELSE IF ~existsSync(f, sourceFilePath) THEN Res(404, "Source file not found", f, c3, NoOut)
     ELSE IF ~existsSync(f, destDir)
          THEN Res(404, "Destination directory not found", f, c4, NoOut)
     ELSE IF existsSync(f, destFilePath)
          THEN Res(400, "File already exists in destination", f, c5, NoOut)
     ELSE IF ~copied.ok THEN Res(500, "Failed to copy item", copied.fs, c6, NoOut)
     ELSE Res(200, "Item copied successfully", copied.fs, c6, NoOut)

\* renameItem without its test that the new name is free.
renameItem_overwrites(f, serverName, relativePath, oldName, newName) ==
  LET serverPath == join(serversDir, <<serverName>>)
      targetDir == join(serverPath, relativePath)
      oldFilePath == join(targetDir, oldName)
      newFilePath == join(targetDir, newName)
      c1 == <<Call("check", oldFilePath), Call("check", newFilePath)>>
      c5 == c1 \o <<Call("renameFrom", oldFilePath), Call("renameTo", newFilePath)>>
      moved == rename(f, oldFilePath, newFilePath)
  IN IF ~contained(oldFilePath, serverPath) \/ ~contained(newFilePath, serverPath)
     THEN Res(400, "Invalid path", f, c1, NoOut)
     ELSE IF ~existsSync(f, serverPath) THEN Res(404, "Server not found", f, c1, NoOut)
     ELSE IF ~existsSync(f, oldFilePath) THEN Res(404, "Source file not found", f, c1, NoOut)
     ELSE IF ~moved.ok THEN Res(500, "Failed to rename item", f, c5, NoOut)
     ELSE Res(200, "Item renamed successfully", moved.fs, c5, NoOut)

\* POST /api/servers/:serverName/rename  {oldName, newName, currentPath}
renameItem(f, serverName, relativePath, oldName, newName) ==
  LET serverPath == join(serversDir, <<serverName>>)
      targetDir == join(serverPath, relativePath)
      oldFilePath == join(targetDir, oldName)
      newFilePath == join(targetDir, newName)
      c1 == <<Call("check", oldFilePath), Call("check", newFilePath)>>
      c2 == Append(c1, Call("existsSync", serverPath))
      c3 == Append(c2, Call("existsSync", oldFilePath))
      c4 == Append(c3, Call("existsSync", newFilePath))
      c5 == c4 \o <<Call("renameFrom", oldFilePath), Call("renameTo", newFilePath)>>
      moved == rename(f, oldFilePath, newFilePath)
  IN IF ~contained(oldFilePath, serverPath) \/ ~contained(newFilePath, serverPath)
     THEN Res(400, "Invalid path", f, c1, NoOut)
     ELSE IF ~existsSync(f, serverPath) THEN Res(404, "Server not found", f, c2, NoOut)
     ELSE IF ~existsSync(f, oldFilePath) THEN Res(404, "Source file not found", f, c3, NoOut)
     ELSE IF existsSync(f, newFilePath)
          THEN Res(400, "A file or directory with that name already exists", f, c4, NoOut)
     ELSE IF ~moved.ok THEN Res(500, "Failed to rename item", f, c5, NoOut)
     ELSE Res(200, "Item renamed successfully", moved.fs, c5, NoOut)

----------------------------------------------------------------------------
(* ServerRegistry *)

\* The text of a seeded configuration file.
SEED == "seed"

\* A listing that does not test whether an entry is a directory.
getServers_lists_files(f) ==
  LET made == IF existsSync(f, serversDir) THEN Ok(f) ELSE mkdir(f, serversDir)
      c1 == <<Call("existsSync", serversDir)>>
      c2 == IF existsSync(f, serversDir) THEN c1 ELSE Append(c1, Call("mkdir", serversDir))
      c3 == Append(c2, Call("readdir", serversDir))
  IN IF ~made.ok \/ ~IsDir(made.fs, serversDir)
     THEN Res(500, "Failed to read servers directory", made.fs, c3, NoOut)
     ELSE Res(200, "servers", made.fs, c3,
              {q[Len(q)] : q \in Children(made.fs, serversDir)})

\* GET /api/servers
getServers(f) ==
  LET made == IF existsSync(f, serversDir) THEN Ok(f) ELSE mkdir(f, serversDir)
      c1 == <<Call("existsSync", serversDir)>>
      c2 == IF existsSync(f, serversDir) THEN c1 ELSE Append(c1, Call("mkdir", serversDir))
      c3 == Append(c2, Call("readdir", serversDir))
      servers == SeqOf(Children(made.fs, serversDir))
      c4 == c3 \o [i \in 1..Len(servers) |-> Call("stat", servers[i])]
  IN IF ~made.ok \/ ~IsDir(made.fs, serversDir)
     THEN Res(500, "Failed to read servers directory", made.fs, c3, NoOut)
     ELSE Res(200, "servers", made.fs, c4,
              {q[Len(q)] : q \in {c \in Children(made.fs, serversDir) : IsDir(made.fs, c)}})

\* The awaited calls of POST /api/servers after the first mkdir, in order;
\* the first that fails rejects and the rest are not made.
RECURSIVE seed(_, _, _)
seed(f, serverPath, steps) ==
  IF steps = <<>> THEN Ok(f)
  ELSE LET target == join(serverPath, <<Head(steps).name>>)
           r == IF Head(steps).dir THEN mkdir(f, target) ELSE writeFile(f, target, SEED)
       IN IF ~r.ok THEN r ELSE seed(r.fs, serverPath, Tail(steps))

seedSteps ==
  <<[name |-> "plugins", dir |-> TRUE], [name |-> "logs", dir |-> TRUE],
    [name |-> "world", dir |-> TRUE], [name |-> "server.properties", dir |-> FALSE],
    [name |-> "config.yml", dir |-> FALSE], [name |-> "bukkit.yml", dir |-> FALSE]>>

\* POST /api/servers  {name}
postServers(f, name) ==
  LET serverPath == join(serversDir, name)
      made == mkdir(f, serverPath)
      seeded == seed(made.fs, serverPath, seedSteps)
      c1 == <<Call("mkdir", serverPath)>>
      c2 == c1 \o [i \in 1..Len(seedSteps) |->
                     Call(IF seedSteps[i].dir THEN "mkdir" ELSE "writeFile",
                          join(serverPath, <<seedSteps[i].name>>))]
  IN IF ~made.ok THEN Res(500, "Failed to create server", f, c1, NoOut)
     ELSE IF ~seeded.ok THEN Res(500, "Failed to create server", seeded.fs, c2, NoOut)
     ELSE Res(200, "Server created successfully", seeded.fs, c2, NoOut)

\* DELETE /api/servers/:serverName
deleteServer(f, serverName) ==
  LET serverPath == join(serversDir, <<serverName>>)
      c1 == <<Call("check", serverPath)>>
      c2 == Append(c1, Call("existsSync", serverPath))
      c3 == Append(c2, Call("rm", serverPath))
  IN IF ~contained(serverPath, serversDir) THEN Res(400, "Invalid server name", f, c1, NoOut)
     ELSE IF ~existsSync(f, serverPath) THEN Res(404, "Server not found", f, c2, NoOut)
     ELSE Res(200, "Server deleted successfully", rm(f, serverPath).fs, c3, NoOut)

----------------------------------------------------------------------------
(* AuthGate *)

\* The rows of the users table: the default users.
hash(password) == <<"bcrypt", password>>
users ==
  {[id |-> 1, username |-> "admin", password |-> hash("admin123")],
   [id |-> 2, username |-> "moderator", password |-> hash("mod123")]}

\* bcrypt.compare(password, stored)
compare(password, stored) == stored = hash(password)

\* A session of the store that no login has written.
NoSession == [userId |-> 0, username |-> ""]

\* An answer sent without running a route's handler.
Deny(status, msg) ==
  [status |-> status, msg |-> msg, calls |-> <<>>, out |-> NoOut, handler |-> FALSE]

\* A gate that calls next for every request.
isAuthenticated_admits_all(sess, reqPath, next) == next

\* The middleware isAuthenticated: next is the outcome of the route's handler.
isAuthenticated(sess, reqPath, next) ==
  IF sess.userId # 0 THEN next
  ELSE IF startsWith(StrOf(reqPath), <<"/","a","p","i","/">>)
       THEN Deny(401, "Unauthorized")
       ELSE Deny(302, "/login")

\* A login that does not compare the password with the stored hash.
login_without_compare(sess, username, password, dbError) ==
  LET found == {u \in users : u.username = username}
      user == CHOOSE u \in found : TRUE
  IN IF dbError THEN [session |-> sess, status |-> 500, msg |-> "Server error"]
     ELSE IF found = {} THEN [session |-> sess, status |-> 401, msg |-> "Invalid credentials"]
     ELSE [session |-> [userId |-> user.id, username |-> user.username],
           status |-> 302, msg |-> "/"]

\* POST /login  {username, password}: the session it leaves and the answer.
login(sess, username, password, dbError) ==
  LET found == {u \in users : u.username = username}
      user == CHOOSE u \in found : TRUE
  IN IF dbError THEN [session |-> sess, status |-> 500, msg |-> "Server error"]
     ELSE IF found = {} THEN [session |-> sess, status |-> 401, msg |-> "Invalid credentials"]
     ELSE IF ~compare(password, user.password)
          THEN [session |-> sess, status |-> 401, msg |-> "Invalid credentials"]
     ELSE [session |-> [userId |-> user.id, username |-> user.username],
           status |-> 302, msg |-> "/"]

\* GET /logout: req.session.destroy of the default MemoryStore, which
\* never reports an error.
logout(sess) == [session |-> NoSession, status |-> 302, msg |-> "/login"]

----------------------------------------------------------------------------
(* ProcessSupervisor.  PM2 owns the process list ps, a sequence of         *)
(* [name, status].  fault names the PM2 call of the request that reports   *)
(* an error: "connect", "list", "call" (start, stop or restart), or "none".*)
(* The calls of a supervisor handler are PM2 calls on the process name.    *)

Matching(ps, serverName) == {i \in 1..Len(ps) : ps[i].name = serverName}

\* list.find(process => process.name === serverName): the index, 0 if none.
find(ps, serverName) ==
  IF Matching(ps, serverName) = {} THEN 0
  ELSE CHOOSE i \in Matching(ps, serverName) : \A j \in Matching(ps, serverName) : i <= j

\* pm2.start(options): registers a new process and launches it.
pm2start(ps, serverName) == Append(ps, [name |-> serverName, status |-> "online"])

\* pm2.stop(name) and pm2.restart(name): every process of that name.
pm2stop(ps, serverName) ==
  [i \in 1..Len(ps) |-> IF ps[i].name = serverName
                        THEN [ps[i] EXCEPT !.status = "stopped"] ELSE ps[i]]
pm2restart(ps, serverName) ==
  [i \in 1..Len(ps) |-> IF ps[i].name = serverName
                        THEN [ps[i] EXCEPT !.status = "online"] ELSE ps[i]]

\* A status that reports every listed process as running.
status_running_when_listed(ps, serverName, fault, elapsed) ==
  LET i == find(ps, serverName)
      c1 == <<Call("connect", serverName)>>
      c2 == Append(c1, Call("list", serverName))
      c3 == Append(c2, Call("disconnect", serverName))
  IN IF fault = "connect" THEN ResP(500, "Failed to connect to PM2", ps, c1, NoOut)
     ELSE IF fault = "list" THEN ResP(500, "Failed to get process list", ps, c3, NoOut)
     ELSE IF i # 0
          THEN ResP(200, "status", ps, c3,
                    {[running |-> TRUE, status |-> ps[i].status, uptime |-> elapsed]})
          ELSE ResP(200, "status", ps, c3, {[running |-> FALSE, status |-> "stopped"]})

\* GET /api/servers/:serverName/status; elapsed is
\* Math.floor((Date.now() - pm_uptime) / 1000).
status(ps, serverName, fault, elapsed) ==
  LET i == find(ps, serverName)
      c1 == <<Call("connect", serverName)>>
      c2 == Append(c1, Call("list", serverName))
      c3 == Append(c2, Call("disconnect", serverName))
  IN IF fault = "connect" THEN ResP(500, "Failed to connect to PM2", ps, c1, NoOut)
     ELSE IF fault = "list" THEN ResP(500, "Failed to get process list", ps, c3, NoOut)
     ELSE IF i # 0
          THEN ResP(200, "status", ps, c3,
                    {[running |-> ps[i].status = "online", status |-> ps[i].status,
                      uptime |-> IF ps[i].status = "online" THEN elapsed ELSE 0]})
          ELSE ResP(200, "status", ps, c3, {[running |-> FALSE, status |-> "stopped"]})

\* A start that does not look for the name in the process list.
start_always_registers(f, ps, serverName, fault) ==
  LET serverPath == join(serversDir, <<serverName>>)
      c1 == <<Call("connect", serverName)>>
      c2 == Append(c1, Call("list", serverName))
      c3 == Append(c2, Call("disconnect", serverName))
      c4 == Append(c2, Call("existsSync", serverPath))
      c5 == Append(c4, Call("disconnect", serverName))
      c6 == c4 \o <<Call("start", serverName), Call("disconnect", serverName)>>
  IN IF fault = "connect" THEN ResP(500, "Failed to connect to PM2", ps, c1, NoOut)
     ELSE IF fault = "list" THEN ResP(500, "Failed to get process list", ps, c3, NoOut)
     ELSE IF ~existsSync(f, serverPath) THEN ResP(404, "Server not found", ps, c5, NoOut)
     ELSE IF fault = "call" THEN ResP(500, "Failed to start server", ps, c6, NoOut)
     ELSE ResP(200, "Server started successfully", pm2start(ps, serverName), c6, NoOut)

\* start that answers 'Server not found' without pm2.disconnect.
start_keeps_connection(f, ps, serverName, fault) ==
  LET serverPath == join(serversDir, <<serverName>>)
      c1 == <<Call("connect", serverName)>>
      c2 == Append(c1, Call("list", serverName))
      c3 == Append(c2, Call("disconnect", serverName))
      c4 == Append(c2, Call("existsSync", serverPath))
      c6 == c4 \o <<Call("start", serverName), Call("disconnect", serverName)>>
  IN IF fault = "connect" THEN ResP(500, "Failed to connect to PM2", ps, c1, NoOut)
     ELSE IF fault = "list" THEN ResP(500, "Failed to get process list", ps, c3, NoOut)
     ELSE IF find(ps, serverName) # 0 THEN ResP(200, "Server is already running", ps, c3, NoOut)
     ELSE IF ~existsSync(f, serverPath) THEN ResP(404, "Server not found", ps, c4, NoOut)
     ELSE IF fault = "call" THEN ResP(500, "Failed to start server", ps, c6, NoOut)
     ELSE ResP(200, "Server started successfully", pm2start(ps, serverName), c6, NoOut)

\* POST /api/servers/:serverName/start
start(f, ps, serverName, fault) ==
  LET serverPath == join(serversDir, <<serverName>>)
      c1 == <<Call("connect", serverName)>>
      c2 == Append(c1, Call("list", serverName))
      c3 == Append(c2, Call("disconnect", serverName))
      c4 == Append(c2, Call("existsSync", serverPath))
      c5 == Append(c4, Call("disconnect", serverName))
      c6 == c4 \o <<Call("start", serverName), Call("disconnect", serverName)>>
  IN IF fault = "connect" THEN ResP(500, "Failed to connect to PM2", ps, c1, NoOut)
     ELSE IF fault = "list" THEN ResP(500, "Failed to get process list", ps, c3, NoOut)
     ELSE IF find(ps, serverName) # 0 THEN ResP(200, "Server is already running", ps, c3, NoOut)
     ELSE IF ~existsSync(f, serverPath) THEN ResP(404, "Server not found", ps, c5, NoOut)
     ELSE IF fault = "call" THEN ResP(500, "Failed to start server", ps, c6, NoOut)
     ELSE ResP(200, "Server started successfully", pm2start(ps, serverName), c6, NoOut)

\* POST /api/servers/:serverName/stop
stop(ps, serverName, fault) ==
  LET c1 == <<Call("connect", serverName)>>
      c2 == c1 \o <<Call("stop", serverName), Call("disconnect", serverName)>>
  IN IF fault = "connect" THEN ResP(500, "Failed to connect to PM2", ps, c1, NoOut)
     ELSE IF fault = "call" \/ find(ps, serverName) = 0
          THEN ResP(500, "Failed to stop server", ps, c2, NoOut)
     ELSE ResP(200, "Server stopped successfully", pm2stop(ps, serverName), c2, NoOut)

\* restart that answers without calling pm2.restart.
restart_without_call(ps, serverName, fault) ==
  LET c1 == <<Call("connect", serverName)>>
      c2 == c1 \o <<Call("disconnect", serverName)>>
  IN IF fault = "connect" THEN ResP(500, "Failed to connect to PM2", ps, c1, NoOut)
     ELSE IF fault = "call" \/ find(ps, serverName) = 0
          THEN ResP(500, "Failed to restart server", ps, c2, NoOut)
     ELSE ResP(200, "Server restarted successfully", ps, c2, NoOut)

\* POST /api/servers/:serverName/restart
restart(ps, serverName, fault) ==
  LET c1 == <<Call("connect", serverName)>>
      c2 == c1 \o <<Call("restart", serverName), Call("disconnect", serverName)>>
  IN IF fault = "connect" THEN ResP(500, "Failed to connect to PM2", ps, c1, NoOut)
     ELSE IF fault = "call" \/ find(ps, serverName) = 0
          THEN ResP(500, "Failed to restart server", ps, c2, NoOut)
     ELSE ResP(200, "Server restarted successfully", pm2restart(ps, serverName), c2, NoOut)

\* POST /api/servers/:serverName/command  {command}.  The callback of
\* pm2.sendDataToProcessId is (err, res) => ..., so the res it answers on is
\* PM2's result, not the response: res.status and res.json throw a
\* TypeError after pm2.disconnect and the request gets no answer (status 0).
\* PM2 forwards the packet to a process that is online.
sendCommand(ps, serverName, command, fault) ==
  LET c1 == <<Call("connect", serverName)>>
      c2 == Append(c1, Call("list", serverName))
      c3 == Append(c2, Call("disconnect", serverName))
      c4 == c2 \o <<Call("send", serverName), Call("disconnect", serverName)>>
  IN IF command = "" THEN ResP(400, "Command is required", ps, <<>>, NoOut)
     ELSE IF fault = "connect" THEN ResP(500, "Failed to connect to PM2", ps, c1, NoOut)
     ELSE IF fault = "list" THEN ResP(500, "Failed to get process list", ps, c3, NoOut)
     ELSE IF find(ps, serverName) = 0
          THEN ResP(404, "Server not found or not running", ps, c3, NoOut)
     ELSE IF fault = "call" \/ ps[find(ps, serverName)].status # "online"
          THEN ResP(0, "TypeError", ps, c4, NoOut)
     ELSE ResP(0, "TypeError", ps, c4, {[forwarded |-> command]})

\* The lines of a log file, by its content: "" is the empty file, "logN"
\* a file of N lines, numbered in file order; any other content is one line.
LogLength(content) ==
  CASE content = "" -> 0
    [] content = "log2" -> 2
    [] content = "log100" -> 100
    [] content = "log101" -> 101
    [] OTHER -> 1
LinesOf(content) == [i \in 1..LogLength(content) |-> i]

\* The number of lines the console route asks for.
TailLines == 100

\* A 'line' handler that stops taking lines when it holds numLines of them.
onLine_keeps_first(lines, line, numLines) ==
  IF Len(lines) < numLines THEN Append(lines, line) ELSE lines

\* rl.on('line', ...): push the line, shift the oldest out when more than
\* numLines are held.
onLine(lines, line, numLines) ==
  LET pushed == Append(lines, line)
  IN IF Len(pushed) > numLines THEN Tail(pushed) ELSE pushed

\* The events of the read stream: the 'line' handler is applied to the
\* lines lo..hi of the file in file order.  The range is split in halves
\* and the first half is evaluated (its length taken) before the second.
RECURSIVE lineEvents(_, _, _, _, _)
lineEvents(lines, file, lo, hi, numLines) ==
  IF lo > hi THEN lines
  ELSE IF lo = hi THEN onLine(lines, file[lo], numLines)
  ELSE LET mid == (lo + hi) \div 2
           first == lineEvents(lines, file, lo, mid, numLines)
       IN IF Len(first) <= numLines
          THEN lineEvents(first, file, mid + 1, hi, numLines)
          ELSE first

\* readLastLines(file, numLines): what rl.on('close') resolves with.
readLastLines(file, numLines) == lineEvents(<<>>, file, 1, Len(file), numLines)

\* GET /api/servers/:serverName/console.  mkdirSync and writeFileSync throw
\* in the handler body, which Express answers with 500; an error of the
\* read stream (server.log is a directory) is readline's 'error' event,
\* which rejects the promise, and the catch answers an empty list.
tailLog(f, serverName) ==
  LET serverPath == join(serversDir, <<serverName>>)
      logsDir == join(serverPath, <<"logs">>)
      logFile == join(logsDir, <<"server.log">>)
      c1 == <<Call("existsSync", serverPath)>>
      c2 == Append(c1, Call("existsSync", logsDir))
      made == IF existsSync(f, logsDir) THEN Ok(f) ELSE mkdir(f, logsDir)
      c3 == IF existsSync(f, logsDir) THEN c2 ELSE Append(c2, Call("mkdir", logsDir))
      c4 == Append(c3, Call("existsSync", logFile))
      written == IF existsSync(made.fs, logFile) THEN made
                 ELSE writeFile(made.fs, logFile, "")
      c5 == IF existsSync(made.fs, logFile) THEN c4 ELSE Append(c4, Call("writeFile", logFile))
      c6 == Append(c5, Call("createReadStream", logFile))
  IN IF ~existsSync(f, serverPath) THEN Res(404, "Server not found", f, c1, NoOut)
     ELSE IF ~made.ok THEN Res(500, "Internal Server Error", made.fs, c3, NoOut)
     ELSE IF ~written.ok THEN Res(500, "Internal Server Error", written.fs, c5, NoOut)
     ELSE IF IsDir(written.fs, logFile)
          THEN Res(200, "logs", written.fs, c6, {[logs |-> <<>>]})
     ELSE Res(200, "logs", written.fs, c6,
              {[logs |-> readLastLines(LinesOf(written.fs[logFile]), TailLines)]})

----------------------------------------------------------------------------
(* Requests.  Every route but /login and /logout is registered behind      *)
(* isAuthenticated; one request is one action.                             *)

api(serverName, rest) == <<"api", "servers", serverName>> \o rest

\* A gated route answers: the state the request leaves and its record.
Serve(req, reqPath, next) ==
  LET r == isAuthenticated(session, reqPath, next)
  IN /\ UNCHANGED <<inflight, handle>>
     /\ fs' = IF "fs" \in DOMAIN r THEN r.fs ELSE fs
     /\ procs' = IF "procs" \in DOMAIN r THEN r.procs ELSE procs
     /\ last' = [req |-> req, path |-> reqPath, status |-> r.status, msg |-> r.msg,
                 calls |-> r.calls, out |-> r.out, handler |-> r.handler,
                 authed |-> session.userId # 0]

GetIndex ==
  /\ UNCHANGED session
  /\ Serve([op |-> "index"], <<>>, Res(200, "index.html", fs, <<>>, NoOut))

GetServers ==
  /\ UNCHANGED session
  /\ Serve([op |-> "getServers"], <<"api", "servers">>, getServers(fs))

PostServers(name) ==
  /\ UNCHANGED session
  /\ Serve([op |-> "postServers", name |-> name], <<"api", "servers">>, postServers(fs, name))

DeleteServer(sn) ==
  /\ UNCHANGED session
  /\ Serve([op |-> "deleteServer", serverName |-> sn], api(sn, <<>>), deleteServer(fs, sn))

GetFiles(sn, rp) ==
  /\ UNCHANGED session
  /\ Serve([op |-> "getFiles", serverName |-> sn, relativePath |-> rp],
        api(sn, <<"files">>), getFiles(fs, sn, rp))

GetFile(sn, rp, fn) ==
  /\ UNCHANGED session
  /\ Serve([op |-> "getFile", serverName |-> sn, relativePath |-> rp, filename |-> fn],
        api(sn, <<"files">> \o fn), getFile(fs, sn, rp, fn))

PostFile(sn, rp, fn, content) ==
  /\ UNCHANGED session
  /\ Serve([op |-> "postFile", serverName |-> sn, relativePath |-> rp, filename |-> fn,
         content |-> content],
        api(sn, <<"files">> \o fn), postFile(fs, sn, rp, fn, content))

DeleteFile(sn, rp, fn) ==
  /\ UNCHANGED session
  /\ Serve([op |-> "deleteFile", serverName |-> sn, relativePath |-> rp, filename |-> fn],
        api(sn, <<"files">> \o fn), deleteFile(fs, sn, rp, fn))

PostDirectories(sn, rp, name) ==
  /\ UNCHANGED session
  /\ Serve([op |-> "postDirectories", serverName |-> sn, relativePath |-> rp, filename |-> name],
        api(sn, <<"directories">>), postDirectories(fs, sn, rp, name))

\* upload.array('file') runs after isAuthenticated and before the handler;
\* a staging error ends the request in express's error handler.
Upload(sn, rp, files) ==
  LET staged == stage(fs, files)
  IN /\ UNCHANGED session
     /\ Serve([op |-> "upload", serverName |-> sn, relativePath |-> rp, files |-> files],
           api(sn, <<"upload">>),
           IF staged.ok THEN upload(staged.fs, sn, rp, files)
           ELSE [Res(500, "Internal Server Error", fs, stageCalls(files), NoOut)
                   EXCEPT !.handler = FALSE])

Extract(sn, rp, fn) ==
  /\ UNCHANGED session
  /\ Serve([op |-> "extract", serverName |-> sn, relativePath |-> rp, filename |-> fn],
        api(sn, <<"extract">> \o fn), extract(fs, sn, rp, fn))

Move(sn, rp, fn, dp) ==
  /\ UNCHANGED session
  /\ Serve([op |-> "move", serverName |-> sn, relativePath |-> rp, filename |-> fn,
         destinationPath |-> dp],
        api(sn, <<"move">>), move(fs, sn, rp, fn, dp))

MoveMultiple(sn, rp, fns, dp) ==
  /\ UNCHANGED session
  /\ Serve([op |-> "moveMultiple", serverName |-> sn, relativePath |-> rp, filenames |-> fns,
         destinationPath |-> dp],
        api(sn, <<"move-multiple">>), moveMultiple(fs, sn, rp, fns, dp))

Copy(sn, rp, fn, dp) ==
  /\ UNCHANGED session
  /\ Serve([op |-> "copy", serverName |-> sn, relativePath |-> rp, filename |-> fn,
         destinationPath |-> dp],
        api(sn, <<"copy">>), copy(fs, sn, rp, fn, dp))

Rename(sn, rp, oldName, newName) ==
  /\ UNCHANGED session
  /\ Serve([op |-> "rename", serverName |-> sn, relativePath |-> rp, filename |-> oldName,
         newName |-> newName],
        api(sn, <<"rename">>), renameItem(fs, sn, rp, oldName, newName))

Download(sn, rp, fn) ==
  /\ UNCHANGED session
  /\ Serve([op |-> "download", serverName |-> sn, relativePath |-> rp, filename |-> fn],
        api(sn, <<"download">> \o fn), download(fs, sn, rp, fn))

Status(sn, fault, elapsed) ==
  /\ UNCHANGED session
  /\ Serve([op |-> "status", serverName |-> sn, fault |-> fault],
        api(sn, <<"status">>), status(procs, sn, fault, elapsed))

Start(sn, fault) ==
  /\ UNCHANGED session
  /\ Serve([op |-> "start", serverName |-> sn, fault |-> fault],
        api(sn, <<"start">>), start(fs, procs, sn, fault))

Stop(sn, fault) ==
  /\ UNCHANGED session
  /\ Serve([op |-> "stop", serverName |-> sn, fault |-> fault],
        api(sn, <<"stop">>), stop(procs, sn, fault))

Restart(sn, fault) ==
  /\ UNCHANGED session
  /\ Serve([op |-> "restart", serverName |-> sn, fault |-> fault],
        api(sn, <<"restart">>), restart(procs, sn, fault))

Console(sn) ==
  /\ UNCHANGED session
  /\ Serve([op |-> "console", serverName |-> sn], api(sn, <<"console">>), tailLog(fs, sn))

Command(sn, command, fault) ==
  /\ UNCHANGED session
  /\ Serve([op |-> "command", serverName |-> sn, command |-> command, fault |-> fault],
        api(sn, <<"command">>), sendCommand(procs, sn, command, fault))

\* The routes outside the gate.
Answer(req, r) ==
  /\ session' = r.session
  /\ last' = [req |-> req, path |-> <<req.op>>, status |-> r.status, msg |-> r.msg,
              calls |-> <<>>, out |-> NoOut, handler |-> TRUE,
              authed |-> session.userId # 0]

Login(username, password, dbError) ==
  /\ UNCHANGED <<fs, procs, inflight, handle>>
  /\ Answer([op |-> "login", username |-> username, password |-> password],
         login(session, username, password, dbError))

Logout ==
  /\ UNCHANGED <<fs, procs, inflight, handle>>
  /\ Answer([op |-> "logout"], logout(session))

\* PM2's side: a running process exits and PM2 marks it errored.
ProcessExit(i) ==
  /\ i \in 1..Len(procs)
  /\ procs[i].status = "online"
  /\ procs' = [procs EXCEPT ![i].status = "errored"]
  /\ UNCHANGED <<fs, session, inflight, handle>>
  /\ last' = [req |-> [op |-> "exit"], path |-> <<>>, status |-> 0, msg |-> "",
              calls |-> <<>>, out |-> NoOut, handler |-> FALSE, authed |-> FALSE]

----------------------------------------------------------------------------
(* Initial states *)

\* The filesystem when app.listen's callback has run: the servers and
\* nHudVps directories exist.
BaseFs ==
  [q \in {<<>>, __dirname, serversDir, join(__dirname, <<"nHudVps">>)} |-> DIR]

\* The requests that can be in handling at one time.
MaxOverlap == 2
Slots == 1..MaxOverlap
Idle == [op |-> "none", pc |-> "idle"]
NoInflight == [r \in Slots |-> Idle]

NoRequest ==
  [req |-> [op |-> "none"], path |-> <<>>, status |-> 0, msg |-> "", calls |-> <<>>,
   out |-> NoOut, handler |-> FALSE, authed |-> FALSE]

\* The contents a request body or an uploaded file carries.
MaxContent == 1
ContentNames == <<"new", "newer", "newest">>
Contents == {ContentNames[i] : i \in 1..MaxContent}

Init ==
  /\ fs = BaseFs
  /\ procs = <<>>
  /\ session = NoSession
  /\ last = NoRequest
  /\ inflight = NoInflight
  /\ handle = "closed"

OneFile == <<[originalname |-> "f", content |-> "new"]>>

Credentials ==
  {<<"admin", "admin123">>, <<"admin", "mod123">>, <<"nobody", "admin123">>}

Next ==
  \/ GetIndex
  \/ GetServers
  \/ PostServers(<<"s1">>)
  \/ DeleteServer("s1")
  \/ GetFiles("s1", <<>>)
  \/ GetFile("s1", <<>>, <<"f">>)
  \/ PostFile("s1", <<>>, <<"f">>, "new")
  \/ DeleteFile("s1", <<>>, <<"f">>)
  \/ PostDirectories("s1", <<>>, <<"d">>)
  \/ Upload("s1", <<>>, OneFile)
  \/ Extract("s1", <<>>, <<"f">>)
  \/ Move("s1", <<>>, <<"f">>, <<"d">>)
  \/ MoveMultiple("s1", <<>>, <<<<"f">>>>, <<"d">>)
  \/ Copy("s1", <<>>, <<"f">>, <<"d">>)
  \/ Rename("s1", <<>>, <<"f">>, <<"g">>)
  \/ Download("s1", <<>>, <<"f">>)
  \/ Status("s1", "none", 1)
  \/ Start("s1", "none")
  \/ Stop("s1", "none")
  \/ Restart("s1", "none")
  \/ \E c \in Credentials, dbError \in BOOLEAN : Login(c[1], c[2], dbError)
  \/ Logout

Spec == Init /\ [][Next]_vars

----------------------------------------------------------------------------
(* The file gateway: an operator is logged in, the servers s1 and s1-evil  *)
(* have been created, and requests name s1 with paths that stay in the     *)
(* root, reach the sibling s1-evil, or leave through the servers           *)
(* directory.                                                              *)

Admin == [userId |-> 1, username |-> "admin"]

TwoServers == postServers(postServers(BaseFs, <<"s1">>).fs, <<"s1-evil">>).fs

InitFiles ==
  /\ fs = TwoServers
  /\ procs = <<>>
  /\ session = Admin
  /\ last = NoRequest
  /\ inflight = NoInflight
  /\ handle = "closed"

FServers == {"s1"}
FPaths == {<<>>, <<"..", "s1-evil">>, <<"..", "..">>}
FNames == {<<"f">>}
FNameLists == {<< <<"f">> >>, << <<"..", "..", "f">>, <<"f">> >>}
FUploads == {<<>>, OneFile}

NextFiles ==
  \/ \E sn \in FServers, rp \in FPaths : GetFiles(sn, rp)
  \/ \E sn \in FServers, rp \in FPaths, fn \in FNames : GetFile(sn, rp, fn)
  \/ \E sn \in FServers, rp \in FPaths, fn \in FNames : PostFile(sn, rp, fn, "new")
  \/ \E sn \in FServers, rp \in FPaths, fn \in FNames : DeleteFile(sn, rp, fn)
  \/ \E sn \in FServers, rp \in FPaths : PostDirectories(sn, rp, <<"d">>)
  \/ \E sn \in FServers, rp \in FPaths, files \in FUploads : Upload(sn, rp, files)
  \/ \E sn \in FServers, rp \in FPaths, fn \in FNames : Extract(sn, rp, fn)
  \/ \E sn \in FServers, rp \in FPaths, fn \in FNames, dp \in FPaths : Move(sn, rp, fn, dp)
  \/ \E sn \in FServers, rp \in FPaths, fns \in FNameLists, dp \in FPaths :
       MoveMultiple(sn, rp, fns, dp)
  \/ \E sn \in FServers, rp \in FPaths, fn \in FNames, dp \in FPaths : Copy(sn, rp, fn, dp)
  \/ \E sn \in FServers, rp \in FPaths, fn \in FNames : Rename(sn, rp, fn, <<"g">>)
  \/ \E sn \in FServers, rp \in FPaths, fn \in FNames : Download(sn, rp, fn)

SpecFiles == InitFiles /\ [][NextFiles]_vars

----------------------------------------------------------------------------
(* What the last request asked for *)

\* The file operations of the gateway that resolve one path or a pair.
FileOps ==
  {"getFiles", "getFile", "postFile", "deleteFile", "postDirectories", "upload",
   "extract", "move", "copy", "rename", "download"}

\* The root of the server instance a request names.
RootOf(req) == join(serversDir, <<req.serverName>>)

\* The paths a request resolves to: its path joined with its filename(s).
Resolved(req) ==
  LET root == RootOf(req)
      dir == join(root, req.relativePath)
  IN CASE req.op \in {"getFiles", "upload"} -> {dir}
       [] req.op \in {"move", "copy"} ->
            {join(dir, req.filename), join(join(root, req.destinationPath), req.filename)}
       [] req.op = "rename" -> {join(dir, req.filename), join(dir, req.newName)}
       [] req.op = "moveMultiple" ->
            {join(dir, req.filenames[i]) : i \in 1..Len(req.filenames)} \cup
            {join(join(root, req.destinationPath), req.filenames[i]) :
               i \in 1..Len(req.filenames)}
       [] OTHER -> {join(dir, req.filename)}

\* The request resolves to a path that is not in its server's root.
Escapes(req) == \E p \in Resolved(req) : ~Within(p, RootOf(req))

Rejected(l) == l.status = 400 /\ l.msg = "Invalid path"

\* The calls of a request that reach the filesystem under a resolved path;
\* "stage" and "unstage" are on the staging location.
FsCalls(l) ==
  {i \in 1..Len(l.calls) : l.calls[i].call \notin {"check", "stage", "unstage"}}

----------------------------------------------------------------------------
(* C1: a request whose path leaves the server root through ".." is         *)
(* rejected with 400 'Invalid path' and changes nothing in the filesystem, *)
(* for every file operation of the gateway.                                *)
C1_EscapeRejected ==
  [][(last'.req.op \in FileOps /\ last'.authed /\ Escapes(last'.req))
       => (Rejected(last') /\ fs' = fs)]_vars

(* C2: the containment check lets a request through only when every path   *)
(* it tested is the server root or below it by path segments; a path into  *)
(* a sibling whose name starts with the root's name is rejected.           *)
C2_SegmentPrefix ==
  (last.req.op \in FileOps /\ last.handler /\ ~Rejected(last))
    => \A i \in 1..Len(last.calls) :
         last.calls[i].call = "check" => Within(last.calls[i].path, RootOf(last.req))

(* C3: every path a file operation passes to a filesystem call is the      *)
(* server root or a descendant of it, for move-multiple each per-filename  *)
(* source and destination included.                                        *)
C3_CallsWithinRoot ==
  (last.req.op \in FileOps \cup {"moveMultiple"})
    => \A i \in FsCalls(last) : Within(last.calls[i].path, RootOf(last.req))

(* C4: in a request the containment check comes before every filesystem    *)
(* access, the staging write of an upload included, and a request that     *)
(* fails the check has touched no file.                                    *)
C4_CheckFirst ==
  (last.req.op \in FileOps \cup {"moveMultiple"})
    => /\ \A i, j \in 1..Len(last.calls) :
            (i < j /\ last.calls[j].call = "check") => last.calls[i].call = "check"
       /\ Rejected(last) => \A i \in 1..Len(last.calls) : last.calls[i].call = "check"

----------------------------------------------------------------------------
(* Moving, copying and renaming inside one server: files f and g and the  *)
(* directory d of s1, with no path that leaves the root.                   *)

OneServer == postServers(BaseFs, <<"s1">>).fs

\* s1 with the directory d and an earlier file d/f in it.
OneServerWithFile ==
  postFile(postDirectories(OneServer, "s1", <<>>, <<"d">>).fs, "s1", <<"d">>, <<"f">>, "old").fs

InitMove ==
  /\ fs = OneServerWithFile
  /\ procs = <<>>
  /\ session = Admin
  /\ last = NoRequest
  /\ inflight = NoInflight
  /\ handle = "closed"

MPaths == {<<>>, <<"d">>}
MNames == {<<"f">>, <<"d">>}

NextMove ==
  \/ PostFile("s1", <<>>, <<"f">>, "new")
  \/ \E rp \in MPaths, fn \in {<<"f">>, <<"g">>} : DeleteFile("s1", rp, fn)
  \/ \E rp \in MPaths, fn \in MNames, dp \in MPaths : Move("s1", rp, fn, dp)
  \/ \E rp \in MPaths, fn \in MNames, dp \in MPaths : Copy("s1", rp, fn, dp)
  \/ \E rp \in MPaths : Rename("s1", rp, <<"f">>, <<"g">>)

SpecMove == InitMove /\ [][NextMove]_vars

\* The source and the destination of a move, copy or rename request.
Src(req) == join(join(RootOf(req), req.relativePath), req.filename)
Dst(req) ==
  IF req.op = "rename" THEN join(join(RootOf(req), req.relativePath), req.newName)
  ELSE join(join(RootOf(req), req.destinationPath), req.filename)

(* C7: copy, move and rename answer 404 when the source is absent and 400  *)
(* when the destination exists before the call (the source being there),   *)
(* and in both cases leave the filesystem exactly as it was.               *)
C7_ConflictNotFound ==
  [][(/\ last'.req.op \in {"move", "copy", "rename"}
      /\ last'.authed
      /\ ~Escapes(last'.req)
      /\ existsSync(fs, RootOf(last'.req)))
       => /\ ~existsSync(fs, Src(last'.req)) => (last'.status = 404 /\ fs' = fs)
          /\ (existsSync(fs, Src(last'.req)) /\ existsSync(fs, Dst(last'.req)))
               => (last'.status = 400 /\ ~Rejected(last') /\ fs' = fs)]_vars

\* A copy between two directories was refused because the destination exists.
C7_Witness ==
  /\ last.req.op = "copy"
  /\ last.status = 400
  /\ last.msg = "File already exists in destination"
  /\ Src(last.req) # Dst(last.req)
  /\ fs[Src(last.req)] # fs[Dst(last.req)]

----------------------------------------------------------------------------
(* The registry: servers s1 and s2 are created, listed and deleted; a      *)
(* configuration file of s1 is edited and a plain file is written into     *)
(* the servers directory through the server name ".".                      *)

InitRegistry ==
  /\ fs = BaseFs
  /\ procs = <<>>
  /\ session = Admin
  /\ last = NoRequest
  /\ inflight = NoInflight
  /\ handle = "closed"

RNames == {<<"s1">>, <<"s2">>, <<".">>}
RParams == {"s1", "s2", "."}

NextRegistry ==
  \/ GetServers
  \/ \E name \in RNames : PostServers(name)
  \/ \E sn \in RParams : DeleteServer(sn)
  \/ \E c \in Contents : PostFile("s1", <<>>, <<"config.yml">>, c)
  \/ PostFile(".", <<>>, <<"f">>, "new")

SpecRegistry == InitRegistry /\ [][NextRegistry]_vars

\* A name that is one ordinary path segment.
SegmentSafe(name) == Len(name) = 1 /\ name[1] \notin {".", ".."}

\* The directories directly under the servers directory.
InstanceNames(f) == {q[Len(q)] : q \in {c \in Children(f, serversDir) : IsDir(f, c)}}

\* The subtree and the three configuration files of an instance.
Seeded(f, serverPath) ==
  /\ \A d \in {"plugins", "logs", "world"} : IsDir(f, join(serverPath, <<d>>))
  /\ \A c \in {"server.properties", "config.yml", "bukkit.yml"} :
       IsFile(f, join(serverPath, <<c>>))

(* C8: create(name) fails with a Conflict outcome when an instance of that *)
(* name exists, and leaves its directory tree and configuration files as   *)
(* they were.                                                              *)
C8_CreateConflict ==
  [][(/\ last'.req.op = "postServers"
      /\ last'.authed
      /\ existsSync(fs, join(serversDir, last'.req.name)))
       => (last'.status \in {400, 409} /\ fs' = fs)]_vars

(* C9: list() returns exactly the names of the instance directories that   *)
(* exist; after a successful create(name) the listing holds name and the   *)
(* instance has plugins/, logs/, world/ and its three configuration files; *)
(* after a successful delete(name) the listing does not hold name. Names   *)
(* are path-segment-safe strings.                                          *)
C9_ListMatchesRegistry ==
  [][/\ (last'.req.op = "getServers" /\ last'.authed)
          => (last'.status = 200 /\ last'.out = InstanceNames(fs'))
     /\ (last'.req.op = "postServers" /\ last'.status = 200
           /\ SegmentSafe(last'.req.name))
          => /\ last'.req.name[1] \in getServers(fs').out
             /\ Seeded(fs', join(serversDir, last'.req.name))
     /\ (last'.req.op = "deleteServer" /\ last'.status = 200)
          => last'.req.serverName \notin getServers(fs').out]_vars

\* s1 was deleted while s2 and a plain file remain in the servers directory.
C9_Witness ==
  /\ last.req.op = "deleteServer"
  /\ last.req.serverName = "s1"
  /\ last.status = 200
  /\ "s2" \in InstanceNames(fs)
  /\ IsFile(fs, join(serversDir, <<"f">>))

----------------------------------------------------------------------------
(* AuthGate and the session, checked under Spec, which starts logged out.  *)

GatedOps ==
  {"index", "getServers", "postServers", "deleteServer", "getFiles", "getFile",
   "postFile", "deleteFile", "postDirectories", "upload", "extract", "move",
   "moveMultiple", "copy", "rename", "download", "status", "start", "stop", "restart"}

C6_SessionLifecycle ==
  [][/\ (session' # session /\ session'.userId # 0)
          => /\ last'.req.op = "login"
             /\ \E u \in users :
                  /\ u.username = last'.req.username
                  /\ u.password = hash(last'.req.password)
                  /\ session' = [userId |-> u.id, username |-> u.username]
     /\ (/\ last'.req.op = "login"
         /\ ~\E u \in users : /\ u.username = last'.req.username
                              /\ u.password = hash(last'.req.password))
          => /\ last'.status \in {401, 500}
             /\ session' = session
     /\ (last'.req.op = "login" /\ last'.status = 401) => session' = session
     /\ last'.req.op = "logout" => session' = NoSession
     /\ (last'.req.op \in GatedOps /\ session.userId = 0)
          => (~last'.handler /\ last'.status \in {401, 302} /\ session' = session)]_vars

\* A gated request was refused on a session that a logout destroyed after
\* work had been done on it.
C6_Witness ==
  /\ last.req.op = "getServers"
  /\ last.status = 401
  /\ session = NoSession
  /\ existsSync(fs, join(serversDir, <<"s1">>))

----------------------------------------------------------------------------
(* The supervisor: s1 exists, s2 does not; processes are started, stopped, *)
(* restarted and queried, PM2 calls fail, processes exit, and the instance *)
(* s1 is deleted and created again.                                        *)

InitSupervisor ==
  /\ fs = OneServer
  /\ procs = <<>>
  /\ session = Admin
  /\ last = NoRequest
  /\ inflight = NoInflight
  /\ handle = "closed"

\* The largest value of the uptime, in seconds, a status request computes.
MaxUptime == 1
SNames == {"s1", "s2"}
Faults == {"none", "connect", "list", "call"}
\* req.body.command: missing or empty, and a console line.
Commands == {"", "say hi"}

NextSupervisor ==
  \/ \E sn \in SNames, fault \in Faults \ {"call"}, elapsed \in 0..MaxUptime :
       Status(sn, fault, elapsed)
  \/ \E sn \in SNames, fault \in Faults : Start(sn, fault)
  \/ \E sn \in SNames, fault \in Faults \ {"list"} : Stop(sn, fault)
  \/ \E sn \in SNames, fault \in Faults \ {"list"} : Restart(sn, fault)
  \/ \E sn \in SNames, command \in Commands, fault \in Faults : Command(sn, command, fault)
  \/ \E i \in 1..Len(procs) : ProcessExit(i)
  \/ PostServers(<<"s1">>)
  \/ DeleteServer("s1")

SpecSupervisor == InitSupervisor /\ [][NextSupervisor]_vars

\* The answer of status(name) for a running process.
Running(r) == r.status = 200 /\ \A o \in r.out : o.running /\ o.status = "online"

(* C10: start(name) with no process named name in PM2's list registers    *)
(* exactly one process of that name, and a status(name) that follows       *)
(* reports running: true; start(name) with a process of that name in the   *)
(* list, whatever its status, answers success and leaves the list as it    *)
(* was; the list never holds two processes of one name.                    *)
C10_StartRegistersOnce ==
  [][/\ (/\ last'.req.op = "start"
         /\ last'.req.fault = "none"
         /\ Matching(procs, last'.req.serverName) = {}
         /\ existsSync(fs, join(serversDir, <<last'.req.serverName>>)))
          => /\ last'.status = 200
             /\ Len(procs') = Len(procs) + 1
             /\ Cardinality(Matching(procs', last'.req.serverName)) = 1
             /\ \A e \in 0..MaxUptime :
                  Running(status(procs', last'.req.serverName, "none", e))
     /\ (/\ last.req.op = "start"
         /\ last.msg = "Server started successfully"
         /\ last'.req.op = "status"
         /\ last'.req.fault = "none"
         /\ last'.req.serverName = last.req.serverName)
          => (last'.out # {} /\ Running(last'))
     /\ (/\ last'.req.op = "start"
         /\ last'.req.fault \notin {"connect", "list"}
         /\ Matching(procs, last'.req.serverName) # {})
          => /\ last'.status = 200
             /\ procs' = procs
     /\ \A i, j \in 1..Len(procs') : procs'[i].name = procs'[j].name => i = j]_vars

(* C12: sendCommand(name, text): an empty or missing text gives 400        *)
(* without contacting PM2; a name with no process in PM2's list gives 404; *)
(* otherwise the command is forwarded to the process and the caller gets a *)
(* success answer.                                                         *)
C12_SendCommand ==
  (last.req.op = "command" /\ last.authed)
    => /\ last.req.command = "" => (last.status = 400 /\ last.calls = <<>>)
       /\ (/\ last.req.command # ""
           /\ last.req.fault = "none"
           /\ Matching(procs, last.req.serverName) = {})
            => last.status = 404
       /\ (/\ last.req.command # ""
           /\ last.req.fault = "none"
           /\ \E i \in Matching(procs, last.req.serverName) : procs[i].status = "online")
            => (last.out = {[forwarded |-> last.req.command]} /\ last.status = 200)

\* start answered "already running" for a process that had exited.
C10_Witness ==
  /\ last.req.op = "start"
  /\ last.status = 200
  /\ last.msg = "Server is already running"
  /\ Len(procs) = 1
  /\ procs[1].name = last.req.serverName
  /\ procs[1].status = "errored"

----------------------------------------------------------------------------
(* Overlapping supervisor requests.  A supervisor handler runs as a chain  *)
(* of callbacks: the handler body calls pm2.connect; the connect callback  *)
(* calls pm2.list (status, start, command) or pm2.stop / pm2.restart; the  *)
(* list callback answers or calls pm2.start / pm2.sendDataToProcessId; the *)
(* last callback calls pm2.disconnect and answers.  The callbacks of       *)
(* different requests interleave; the pm2 module holds one connection.     *)

SupOps == {"status", "start", "stop", "restart", "command"}

\* The request of slot r is answered with the outcome res.
Respond(r, res) ==
  /\ last' = [req |-> [op |-> inflight[r].op, serverName |-> inflight[r].serverName,
                       fault |-> "none"],
              path |-> api(inflight[r].serverName, <<inflight[r].op>>),
              status |-> res.status, msg |-> res.msg, calls |-> res.calls,
              out |-> res.out, handler |-> TRUE, authed |-> TRUE]
  /\ inflight' = [inflight EXCEPT ![r] = Idle]

\* The handler body: behind isAuthenticated, it calls pm2.connect.
Begin(r, op, sn) ==
  /\ inflight[r] = Idle
  /\ session.userId # 0
  /\ inflight' = [inflight EXCEPT ![r] =
                    [op |-> op, serverName |-> sn, pc |-> "connecting", onClosed |-> FALSE]]
  /\ UNCHANGED <<fs, procs, session, last, handle>>

\* The callback of pm2.connect.
ConnectCb(r, err) ==
  /\ inflight[r].pc = "connecting"
  /\ UNCHANGED <<fs, procs, session>>
  /\ IF err
     THEN /\ Respond(r, ResP(500, "Failed to connect to PM2", procs,
                             <<Call("connect", inflight[r].serverName)>>, NoOut))
          /\ UNCHANGED handle
     ELSE /\ handle' = "open"
          /\ inflight' = [inflight EXCEPT ![r].pc =
                            IF inflight[r].op \in {"stop", "restart"}
                            THEN "calling" ELSE "listing"]
          /\ UNCHANGED last

\* The callback of pm2.list.
ListCb(r, err, elapsed) ==
  LET op == inflight[r].op
      sn == inflight[r].serverName
      res == CASE op = "status" -> status(procs, sn, IF err THEN "list" ELSE "none", elapsed)
               [] op = "start" -> start(fs, procs, sn, IF err THEN "list" ELSE "none")
               [] OTHER -> sendCommand(procs, sn, "say hi", IF err THEN "list" ELSE "none")
      more == /\ ~err
              /\ \/ op = "start" /\ res.msg = "Server started successfully"
                 \/ op = "command" /\ res.status = 0
  IN /\ inflight[r].pc = "listing"
     /\ UNCHANGED <<fs, procs, session>>
     /\ IF more
        THEN /\ inflight' = [inflight EXCEPT ![r].pc = "calling",
                                             ![r].onClosed = (handle = "closed")]
             /\ UNCHANGED <<last, handle>>
        ELSE /\ handle' = "closed"
             /\ Respond(r, res)

\* The callback of pm2.start, pm2.stop, pm2.restart or
\* pm2.sendDataToProcessId.
CallCb(r, err) ==
  LET op == inflight[r].op
      sn == inflight[r].serverName
      fault == IF err THEN "call" ELSE "none"
      c == <<Call("connect", sn), Call(op, sn), Call("disconnect", sn)>>
      res == CASE op = "stop" -> stop(procs, sn, fault)
               [] op = "restart" -> restart(procs, sn, fault)
               [] op = "start" ->
                    IF err THEN ResP(500, "Failed to start server", procs, c, NoOut)
                    ELSE ResP(200, "Server started successfully", pm2start(procs, sn), c, NoOut)
               [] OTHER -> ResP(0, "TypeError", procs, c, NoOut)
  IN /\ inflight[r].pc = "calling"
     /\ UNCHANGED <<fs, session>>
     /\ procs' = res.procs
     /\ handle' = "closed"
     /\ Respond(r, res)

InitOverlap ==
  /\ fs = OneServer
  /\ procs = <<>>
  /\ session = Admin
  /\ last = NoRequest
  /\ inflight = NoInflight
  /\ handle = "closed"

NextOverlap ==
  \/ \E r \in Slots, op \in SupOps : Begin(r, op, "s1")
  \/ \E r \in Slots, err \in BOOLEAN : ConnectCb(r, err)
  \/ \E r \in Slots, err \in BOOLEAN : ListCb(r, err, 1)
  \/ \E r \in Slots, err \in BOOLEAN : CallCb(r, err)

SpecOverlap == InitOverlap /\ [][NextOverlap]_vars

(* C11: supervisor requests are serialized on the PM2 connection: between  *)
(* a request's connect and its own disconnect no other request's           *)
(* disconnect closes the connection, and no request issues its list,       *)
(* start, stop, restart or send call on a connection that another          *)
(* request's disconnect has closed.                                        *)
C11_Serialized ==
  \A r \in Slots :
    /\ inflight[r].pc \in {"listing", "calling"} => handle = "open"
    /\ inflight[r].pc = "calling" => ~inflight[r].onClosed

\* The pm2.start calls for serverName that are in progress.
Starting(serverName) ==
  {r \in Slots : /\ inflight[r].op = "start"
                 /\ inflight[r].pc = "calling"
                 /\ inflight[r].serverName = serverName}

(* C23: under any interleaving of concurrent start(name) requests for one  *)
(* name, PM2 is asked to start a process of that name at most once, and    *)
(* its list has at most one entry of that name.                            *)
C23_StartsOnce ==
  Cardinality(Starting("s1")) + Cardinality(Matching(procs, "s1")) <= 1

(* C24: every sendCommand request that has reached the messaging call is   *)
(* answered once its callback has run: 200 'Command sent successfully'     *)
(* when PM2 reports success and 500 'Failed to send command' when it       *)
(* reports an error; the handler never finishes without responding.        *)
C24_CommandAnswered ==
  [][\A r \in Slots :
       (inflight[r].op = "command" /\ inflight[r].pc = "calling" /\ inflight'[r] = Idle)
         => \/ last'.status = 200 /\ last'.msg = "Command sent successfully"
            \/ last'.status = 500 /\ last'.msg = "Failed to send command"]_vars

----------------------------------------------------------------------------
(* Supervisor queries, under SpecSupervisor. *)

(* C13: status(name) gives no error outcome for a process that is not      *)
(* running: with no process of that name in PM2's list the answer is       *)
(* {running: false, status: "stopped"}; with one, running is true exactly  *)
(* when PM2 reports it online, and uptime is 0 whenever running is false.  *)
C13_StatusNeverFails ==
  (last.req.op = "status" /\ last.authed /\ last.req.fault = "none")
    => /\ last.status = 200
       /\ Cardinality(last.out) = 1
       /\ Matching(procs, last.req.serverName) = {}
            => last.out = {[running |-> FALSE, status |-> "stopped"]}
       /\ Matching(procs, last.req.serverName) # {}
            => \A o \in last.out :
                 /\ o.status = procs[find(procs, last.req.serverName)].status
                 /\ o.running <=> (o.status = "online")
                 /\ ~o.running => o.uptime = 0

\* status answered for a process that is listed and has exited.
C13_Witness ==
  /\ last.req.op = "status"
  /\ last.status = 200
  /\ Matching(procs, last.req.serverName) # {}
  /\ last.out = {[running |-> FALSE, status |-> "errored", uptime |-> 0]}

----------------------------------------------------------------------------
(* The console: the log of s1 is written, removed and replaced by a        *)
(* directory or a file of other kinds through the file routes, and read    *)
(* through the console route.                                              *)

InitConsole ==
  /\ fs = OneServer
  /\ procs = <<>>
  /\ session = Admin
  /\ last = NoRequest
  /\ inflight = NoInflight
  /\ handle = "closed"

LogContents == {"new", "log2", "log100", "log101"}

NextConsole ==
  \/ \E sn \in {"s1", "s2"} : Console(sn)
  \/ \E c \in LogContents : PostFile("s1", <<"logs">>, <<"server.log">>, c)
  \/ DeleteFile("s1", <<"logs">>, <<"server.log">>)
  \/ DeleteFile("s1", <<>>, <<"logs">>)
  \/ PostDirectories("s1", <<"logs">>, <<"server.log">>)
  \/ PostDirectories("s1", <<>>, <<"logs">>)
  \/ PostFile("s1", <<>>, <<"logs">>, "new")
  \/ PostServers(<<"s1">>)
  \/ DeleteServer("s1")
  \/ GetFiles("s1", <<"logs">>)
  \/ GetFile("s1", <<"logs">>, <<"server.log">>)

SpecConsole == InitConsole /\ [][NextConsole]_vars

LogsDirOf(req) == join(join(serversDir, <<req.serverName>>), <<"logs">>)
LogFileOf(req) == join(LogsDirOf(req), <<"server.log">>)

\* The last n elements of a sequence.
LastOf(seq, n) == SubSeq(seq, Len(seq) - n + 1, Len(seq))
Min(a, b) == IF a < b THEN a ELSE b

(* C14: tailLog on an existing server: a missing log directory or log file *)
(* is created empty and the result is the empty sequence; otherwise the    *)
(* result is the last min(N, 100) lines of the N-line log file in file     *)
(* order; a read error gives the empty sequence, not an error outcome.     *)
C14_TailLog ==
  [][(/\ last'.req.op = "console"
      /\ last'.authed
      /\ existsSync(fs, join(serversDir, <<last'.req.serverName>>)))
       => /\ (\/ ~existsSync(fs, LogsDirOf(last'.req))
              \/ (IsDir(fs, LogsDirOf(last'.req)) /\ ~existsSync(fs, LogFileOf(last'.req))))
               => /\ last'.status = 200
                  /\ last'.out = {[logs |-> <<>>]}
                  /\ IsDir(fs', LogsDirOf(last'.req))
                  /\ IsFile(fs', LogFileOf(last'.req))
                  /\ fs'[LogFileOf(last'.req)] = ""
          /\ IsFile(fs, LogFileOf(last'.req))
               => /\ last'.status = 200
                  /\ fs' = fs
                  /\ \A o \in last'.out :
                       LET all == LinesOf(fs[LogFileOf(last'.req)])
                       IN /\ Len(o.logs) = Min(Len(all), 100)
                          /\ o.logs = LastOf(all, Min(Len(all), 100))
                  /\ last'.out # {}
          /\ IsDir(fs, LogFileOf(last'.req))
               => (last'.status = 200 /\ last'.out = {[logs |-> <<>>]} /\ fs' = fs)]_vars

\* The console answered the last 100 of a log of 101 lines.
C14_Witness ==
  /\ last.req.op = "console"
  /\ last.status = 200
  /\ IsFile(fs, LogFileOf(last.req))
  /\ fs[LogFileOf(last.req)] = "log101"
  /\ \A o \in last.out : Len(o.logs) = 100 /\ o.logs[1] = 2 /\ o.logs[100] = 101
  /\ last.out # {}

----------------------------------------------------------------------------
(* Archives: files named f, a.zip and A.ZIP of s1 are written with plain   *)
(* or archive content, deleted and extracted.                              *)

InitExtract ==
  /\ fs = OneServer
  /\ procs = <<>>
  /\ session = Admin
  /\ last = NoRequest
  /\ inflight = NoInflight
  /\ handle = "closed"

XNames == {<<"f">>, <<"a.zip">>, <<"A.ZIP">>}

NextExtract ==
  \/ \E fn \in XNames, c \in {"new", ZIP} : PostFile("s1", <<>>, fn, c)
  \/ \E fn \in XNames : DeleteFile("s1", <<>>, fn)
  \/ \E sn \in {"s1", "s2"}, fn \in XNames \cup {<<"g">>} : Extract(sn, <<>>, fn)

SpecExtract == InitExtract /\ [][NextExtract]_vars

\* The filename of the request does not end in ".zip", whatever the case.
NotZipName(req) == ~endsWith(toLowerCase(RelStr(req.filename)), <<".", "z", "i", "p">>)
FilePathOf(req) == join(join(RootOf(req), req.relativePath), req.filename)

----------------------------------------------------------------------------
(* Uploads: one or two files, of one name or of two, are uploaded into s1  *)
(* and into its directory d, which holds a file f.                         *)

InitUpload ==
  /\ fs = OneServerWithFile
  /\ procs = <<>>
  /\ session = Admin
  /\ last = NoRequest
  /\ inflight = NoInflight
  /\ handle = "closed"

File(name, content) == [originalname |-> name, content |-> content]
UploadLists ==
  {<<File("f", "new")>>,
   <<File("f", "new"), File("f", "newer")>>,
   <<File("f", "newer"), File("g", "new")>>}

NextUpload ==
  \/ \E rp \in MPaths, files \in UploadLists : Upload("s1", rp, files)
  \/ \E rp \in MPaths : GetFiles("s1", rp)
  \/ \E rp \in MPaths : DeleteFile("s1", rp, <<"f">>)
  \/ DeleteFile("s1", <<>>, <<"d">>)

SpecUpload == InitUpload /\ [][NextUpload]_vars

TargetDirOf(req) == join(RootOf(req), req.relativePath)
FinalPath(req, i) == join(TargetDirOf(req), <<req.files[i].originalname>>)

\* The last file of the request that has the name of its i-th file.
LastNamed(files, i) ==
  files[CHOOSE j \in 1..Len(files) :
          /\ files[j].originalname = files[i].originalname
          /\ \A k \in 1..Len(files) : files[k].originalname = files[i].originalname => k <= j]

(* C16: uploadMany relocates every staged file into the target directory   *)
(* under its original filename, replacing an existing file of that name,   *)
(* and returns the number of files; afterwards the listing of the target   *)
(* directory holds exactly one entry of each uploaded name, with the       *)
(* content of the last upload of that name.                                *)
C16_UploadMany ==
  [][(/\ last'.req.op = "upload"
      /\ last'.authed
      /\ last'.req.files # <<>>
      /\ IsDir(fs, TargetDirOf(last'.req))
      /\ \A i \in 1..Len(last'.req.files) : ~IsDir(fs, FinalPath(last'.req, i)))
       => /\ last'.status = 200
          /\ last'.out = {Len(last'.req.files)}
          /\ \A i \in 1..Len(last'.req.files) :
               /\ IsFile(fs', FinalPath(last'.req, i))
               /\ fs'[FinalPath(last'.req, i)] = LastNamed(last'.req.files, i).content
               /\ Cardinality({e \in getFiles(fs', last'.req.serverName,
                                              last'.req.relativePath).out :
                                 e.name = last'.req.files[i].originalname}) = 1]_vars

----------------------------------------------------------------------------
(* An upload step by step.  upload.array('file') runs behind               *)
(* isAuthenticated and before the handler: for each file of the request    *)
(* multer opens ./<originalname> and writes the bytes as they arrive, so   *)
(* the staged file holds a part of the content before it holds all of it.  *)
(* Then the handler runs.  Other requests are served in between.           *)

\* The content of a staged file that multer is still writing.
PARTIAL == "partial"

StagedPath(file) == join(cwd, <<file.originalname>>)

UploadBegin(r, sn, rp, files) ==
  /\ inflight[r] = Idle
  /\ session.userId # 0
  /\ files # <<>>
  /\ inflight' = [inflight EXCEPT ![r] =
                    [op |-> "upload", serverName |-> sn, relativePath |-> rp,
                     files |-> files, pc |-> "staging", k |-> 1, written |-> FALSE]]
  /\ UNCHANGED <<fs, procs, session, last, handle>>

\* The answer to the upload of slot r.
RespondUpload(r, res) ==
  /\ last' = [req |-> [op |-> "upload", serverName |-> inflight[r].serverName,
                       relativePath |-> inflight[r].relativePath,
                       files |-> inflight[r].files],
              path |-> api(inflight[r].serverName, <<"upload">>),
              status |-> res.status, msg |-> res.msg, calls |-> res.calls,
              out |-> res.out, handler |-> res.handler, authed |-> TRUE]
  /\ inflight' = [inflight EXCEPT ![r] = Idle]

\* multer's write stream puts the first bytes of file k at its staged path.
StageWrite(r) ==
  LET file == inflight[r].files[inflight[r].k]
      w == writeFile(fs, StagedPath(file), PARTIAL)
  IN /\ inflight[r].op = "upload"
     /\ inflight[r].pc = "staging"
     /\ ~inflight[r].written
     /\ UNCHANGED <<procs, session, handle>>
     /\ IF w.ok
        THEN /\ fs' = w.fs
             /\ inflight' = [inflight EXCEPT ![r].written = TRUE]
             /\ UNCHANGED last
        ELSE /\ UNCHANGED fs
             /\ RespondUpload(r, [Res(500, "Internal Server Error", fs,
                                      stageCalls(inflight[r].files), NoOut)
                                    EXCEPT !.handler = FALSE])

\* The write stream of file k finishes: the staged file holds the content.
StageFinish(r) ==
  LET file == inflight[r].files[inflight[r].k]
  IN /\ inflight[r].op = "upload"
     /\ inflight[r].pc = "staging"
     /\ inflight[r].written
     /\ fs' = writeFile(fs, StagedPath(file), file.content).fs
     /\ inflight' = [inflight EXCEPT ![r] =
                       IF inflight[r].k = Len(inflight[r].files)
                       THEN [inflight[r] EXCEPT !.pc = "handler"]
                       ELSE [inflight[r] EXCEPT !.k = @ + 1, !.written = FALSE]]
     /\ UNCHANGED <<procs, session, last, handle>>

\* The route's handler, with every file staged.
UploadHandler(r) ==
  LET res == upload(fs, inflight[r].serverName, inflight[r].relativePath, inflight[r].files)
  IN /\ inflight[r].op = "upload"
     /\ inflight[r].pc = "handler"
     /\ fs' = res.fs
     /\ UNCHANGED <<procs, session, handle>>
     /\ RespondUpload(r, res)

InitStaging ==
  /\ fs = OneServer
  /\ procs = <<>>
  /\ session = Admin
  /\ last = NoRequest
  /\ inflight = NoInflight
  /\ handle = "closed"

StagingServers == {"s1", ".."}

NextStaging ==
  \/ \E sn \in StagingServers, files \in UploadLists : UploadBegin(1, sn, <<>>, files)
  \/ StageWrite(1)
  \/ StageFinish(1)
  \/ UploadHandler(1)
  \/ \E sn \in StagingServers : GetFile(sn, <<>>, <<"f">>)
  \/ DeleteFile("s1", <<>>, <<"f">>)

SpecStaging == InitStaging /\ [][NextStaging]_vars

\* The final path of the i-th file of the upload in handling in slot r.
FinalPathOf(r, i) ==
  join(join(join(serversDir, <<inflight[r].serverName>>), inflight[r].relativePath),
       <<inflight[r].files[i].originalname>>)

(* C17: at no point of an upload does a file with partially written        *)
(* content exist under its final path, target directory + original         *)
(* filename, for every target directory the request can name, the staging  *)
(* directory included.                                                     *)
C17_NoPartialFinalName ==
  \A r \in Slots :
    inflight[r].op = "upload"
      => \A i \in 1..Len(inflight[r].files) :
           IsFile(fs, FinalPathOf(r, i)) => fs[FinalPathOf(r, i)] # PARTIAL

----------------------------------------------------------------------------
(* Listings: the directories d and d/d of s1 are listed, created, removed  *)
(* and replaced by files.                                                  *)

InitList ==
  /\ fs = OneServer
  /\ procs = <<>>
  /\ session = Admin
  /\ last = NoRequest
  /\ inflight = NoInflight
  /\ handle = "closed"

LPaths == {<<>>, <<"d">>, <<"d", "d">>}

\* The contents a client saves.
Saved == {"new", "newer"}

NextList ==
  \/ \E sn \in {"s1", "s2"}, rp \in LPaths : GetFiles(sn, rp)
  \/ \E rp \in {<<>>, <<"d">>}, fn \in {<<"f">>, <<"d">>}, content \in Saved :
       PostFile("s1", rp, fn, content)
  \/ \E rp \in {<<>>, <<"d">>}, fn \in {<<"f">>, <<"d">>} : DeleteFile("s1", rp, fn)

SpecList == InitList /\ [][NextList]_vars

\* A directory can be made at p: no component of p is a file.
Creatable(f, p) == \A q \in Prefixes(p) : ~IsFile(f, q)

(* C18: list(dir) on an existing server never fails with NotFound for a    *)
(* missing directory: an absent contained target directory is created      *)
(* with its parents and the listing is empty; a present one is listed with *)
(* one entry per member, of kind file or directory.                        *)
C18_ListCreates ==
  [][(/\ last'.req.op = "getFiles"
      /\ last'.authed
      /\ IsDir(fs, RootOf(last'.req))
      /\ Within(TargetDirOf(last'.req), RootOf(last'.req)))
       => /\ last'.status # 404
          /\ (~existsSync(fs, TargetDirOf(last'.req)) /\ Creatable(fs, TargetDirOf(last'.req)))
               => /\ last'.status = 200
                  /\ last'.out = {}
                  /\ \A q \in Prefixes(TargetDirOf(last'.req)) : IsDir(fs', q)
                  /\ DOMAIN fs' = DOMAIN fs \cup Prefixes(TargetDirOf(last'.req))
                  /\ \A q \in DOMAIN fs : fs'[q] = fs[q]
          /\ IsDir(fs, TargetDirOf(last'.req))
               => /\ last'.status = 200
                  /\ fs' = fs
                  /\ Cardinality(last'.out) = Cardinality(Children(fs, TargetDirOf(last'.req)))
                  /\ \A q \in Children(fs, TargetDirOf(last'.req)) :
                       [name |-> q[Len(q)],
                        type |-> IF IsDir(fs, q) THEN "Pasta" ELSE "Arquivo"] \in last'.out]_vars

\* The listing of d/d made d and d/d and is empty.
C18_Witness ==
  /\ last.req.op = "getFiles"
  /\ last.req.relativePath = <<"d", "d">>
  /\ last.status = 200
  /\ last.out = {}
  /\ Len(last.calls) > 1
  /\ last.calls[Len(last.calls) - 1].call = "mkdir"
  /\ IsDir(fs, TargetDirOf(last.req))

(* C19: writeFile replaces the whole content of the target file and never  *)
(* creates missing parent directories: when the parent directory of the    *)
(* resolved path does not exist the write fails with an error outcome and  *)
(* the filesystem is unchanged.                                            *)
C19_WriteFile ==
  [][(/\ last'.req.op = "postFile"
      /\ last'.authed)
       => /\ ~IsDir(fs, dirname(FilePathOf(last'.req)))
               => /\ last'.status >= 400
                  /\ fs' = fs
          /\ last'.status = 200
               => /\ fs'[FilePathOf(last'.req)] = last'.req.content
                  /\ DOMAIN fs' = DOMAIN fs \cup {FilePathOf(last'.req)}
                  /\ \A q \in DOMAIN fs \ {FilePathOf(last'.req)} : fs'[q] = fs[q]
          /\ (/\ IsDir(fs, RootOf(last'.req))
              /\ IsDir(fs, dirname(FilePathOf(last'.req)))
              /\ Within(FilePathOf(last'.req), RootOf(last'.req))
              /\ ~IsDir(fs, FilePathOf(last'.req)))
               => last'.status = 200]_vars

\* A save into the absent directory d was refused; d is still absent.
C19_Witness ==
  /\ last.req.op = "postFile"
  /\ last.req.relativePath = <<"d">>
  /\ last.status = 500
  /\ last.msg = "Failed to save file"
  /\ ~existsSync(fs, TargetDirOf(last.req))

----------------------------------------------------------------------------
(* The single-server version of the manager: its file routes work on the   *)
(* one directory minecraft-server of the application directory.            *)

serverDir == join(__dirname, <<"minecraft-server">>)

\* POST /api/files/:filename?path=  {content}
postFileSingle(f, relativePath, filename, content) ==
  LET targetDir == join(serverDir, relativePath)
      filePath == join(targetDir, filename)
      c1 == <<Call("check", filePath)>>
      c2 == Append(c1, Call("writeFile", filePath))
      written == writeFile(f, filePath, content)
  IN IF ~contained(filePath, serverDir) THEN Res(400, "Invalid path", f, c1, NoOut)
     ELSE IF ~written.ok THEN Res(500, "Failed to save file", f, c2, NoOut)
     ELSE Res(200, "File saved successfully", written.fs, c2, NoOut)

\* DELETE /api/files/:filename?path=
deleteFileSingle(f, relativePath, filename) ==
  LET targetDir == join(serverDir, relativePath)
      filePath == join(targetDir, filename)
      c1 == <<Call("check", filePath)>>
      c2 == Append(c1, Call("existsSync", filePath))
      c3 == Append(c2, Call("unlink", filePath))
      removed == unlink(f, filePath)
  IN IF ~contained(filePath, serverDir) THEN Res(400, "Invalid path", f, c1, NoOut)
     ELSE IF ~existsSync(f, filePath) THEN Res(404, "File not found", f, c2, NoOut)
     ELSE IF ~removed.ok THEN Res(500, "Failed to delete file", f, c3, NoOut)
     ELSE Res(200, "File deleted successfully", removed.fs, c3, NoOut)

\* POST /api/directories  {name, path}
postDirectoriesSingle(f, relativePath, name) ==
  LET targetDir == join(serverDir, relativePath)
      newDirPath == join(targetDir, name)
      c1 == <<Call("check", newDirPath)>>
      c2 == Append(c1, Call("mkdir", newDirPath))
      made == mkdir(f, newDirPath)
  IN IF ~contained(newDirPath, serverDir) THEN Res(400, "Invalid path", f, c1, NoOut)
     ELSE IF ~made.ok THEN Res(500, "Failed to create directory", f, c2, NoOut)
     ELSE Res(200, "Directory created successfully", made.fs, c2, NoOut)

PostFileSingle(rp, fn, content) ==
  /\ UNCHANGED session
  /\ Serve([op |-> "postFileSingle", relativePath |-> rp, filename |-> fn, content |-> content],
        <<"api", "files">> \o fn, postFileSingle(fs, rp, fn, content))

DeleteFileSingle(rp, fn) ==
  /\ UNCHANGED session
  /\ Serve([op |-> "deleteFileSingle", relativePath |-> rp, filename |-> fn],
        <<"api", "files">> \o fn, deleteFileSingle(fs, rp, fn))

PostDirectoriesSingle(rp, name) ==
  /\ UNCHANGED session
  /\ Serve([op |-> "postDirectoriesSingle", relativePath |-> rp, filename |-> name],
        <<"api", "directories">>, postDirectoriesSingle(fs, rp, name))

\* Both versions have started in the application directory, and the
\* multi-server one has the server s1.
InitDelete ==
  /\ fs = mkdir(OneServer, join(serverDir, <<"logs">>)).fs
  /\ procs = <<>>
  /\ session = Admin
  /\ last = NoRequest
  /\ inflight = NoInflight
  /\ handle = "closed"

DPaths == {<<>>, <<"d">>}
DNames == {<<"f">>, <<"d">>}

NextDelete ==
  \/ \E rp \in DPaths, fn \in DNames : DeleteFile("s1", rp, fn)
  \/ \E rp \in DPaths, fn \in DNames : PostFile("s1", rp, fn, "new")
  \/ \E rp \in DPaths : PostDirectories("s1", rp, <<"d">>)
  \/ \E rp \in DPaths, fn \in DNames : DeleteFileSingle(rp, fn)
  \/ \E rp \in DPaths, fn \in DNames : PostFileSingle(rp, fn, "new")
  \/ \E rp \in DPaths : PostDirectoriesSingle(rp, <<"d">>)

SpecDelete == InitDelete /\ [][NextDelete]_vars

\* The directory a delete request works in, and the path it resolves.
DeleteRootOf(req) == IF req.op = "deleteFileSingle" THEN serverDir ELSE RootOf(req)
DeletePathOf(req) == join(join(DeleteRootOf(req), req.relativePath), req.filename)

(* C20: deleteEntry removes the target when it is a file and the whole     *)
(* subtree when it is a directory, and fails NotFound (404) with the       *)
(* filesystem unchanged when the target is absent; after a successful      *)
(* delete nothing exists at or below the resolved path and every entry     *)
(* outside it is untouched.                                                *)
C20_DeleteEntry ==
  [][(/\ last'.req.op \in {"deleteFile", "deleteFileSingle"}
      /\ last'.authed
      /\ IsDir(fs, DeleteRootOf(last'.req))
      /\ Within(DeletePathOf(last'.req), DeleteRootOf(last'.req)))
       => /\ ~existsSync(fs, DeletePathOf(last'.req))
               => /\ last'.status = 404
                  /\ fs' = fs
          /\ existsSync(fs, DeletePathOf(last'.req))
               => /\ last'.status = 200
                  /\ Below(fs', DeletePathOf(last'.req)) = {}
                  /\ DOMAIN fs' = DOMAIN fs \ Below(fs, DeletePathOf(last'.req))
                  /\ \A q \in DOMAIN fs' : fs'[q] = fs[q]]_vars

(* C21: makeDirectory is idempotent: called for a contained path that      *)
(* already exists as a directory it returns success and leaves the         *)
(* filesystem unchanged, and called twice in a row it has the effect of    *)
(* one call.                                                               *)
C21_MakeDirectoryIdempotent ==
  [][(/\ last'.req.op = "postDirectories"
      /\ last'.authed)
       => /\ (/\ IsDir(fs, RootOf(last'.req))
              /\ Within(FilePathOf(last'.req), RootOf(last'.req))
              /\ IsDir(fs, FilePathOf(last'.req)))
               => /\ last'.status = 200
                  /\ fs' = fs
          /\ (last.req = last'.req /\ last.status = 200 /\ last.authed)
               => /\ last'.status = 200
                  /\ fs' = fs]_vars

\* The directory d of s1, which holds a file, was made again.
C21_Witness ==
  /\ last.req.op = "postDirectories"
  /\ last.req.serverName = "s1"
  /\ FilePathOf(last.req) = join(serversDir, <<"s1", "d">>)
  /\ last.status = 200
  /\ IsFile(fs, join(serversDir, <<"s1", "d", "f">>))

----------------------------------------------------------------------------
(* Overlapping move and rename requests.  The handler body makes its       *)
(* checks with existsSync and calls fs.rename in one turn of the event     *)
(* loop; the rename is carried out later, and the turns of other requests  *)
(* run in between.                                                         *)

\* The handler body of slot r has run with the outcome res of its checks:
\* it has answered, or it has called fs.rename(src, dst).
RaceBegin(r, op, sn, src, dst, res) ==
  /\ session.userId # 0
  /\ UNCHANGED <<fs, procs, session, handle>>
  /\ IF res.status \in {200, 500}
     THEN /\ inflight' = [inflight EXCEPT ![r] =
                            [op |-> op, serverName |-> sn, pc |-> "renaming",
                             src |-> src, dst |-> dst, calls |-> res.calls]]
          /\ UNCHANGED last
     ELSE /\ last' = [req |-> [op |-> op, serverName |-> sn, src |-> src, dst |-> dst],
                      path |-> api(sn, <<op>>), status |-> res.status, msg |-> res.msg,
                      calls |-> res.calls, out |-> NoOut, handler |-> TRUE, authed |-> TRUE]
          /\ UNCHANGED inflight

RenameBegin(r, sn, rp, oldName, newName) ==
  /\ inflight[r] = Idle
  /\ RaceBegin(r, "rename", sn, join(join(join(serversDir, <<sn>>), rp), oldName),
               join(join(join(serversDir, <<sn>>), rp), newName),
               renameItem(fs, sn, rp, oldName, newName))

MoveBegin(r, sn, rp, fn, dp) ==
  /\ inflight[r] = Idle
  /\ RaceBegin(r, "move", sn, join(join(join(serversDir, <<sn>>), rp), fn),
               join(join(join(serversDir, <<sn>>), dp), fn),
               move(fs, sn, rp, fn, dp))

\* The rename of slot r is carried out and its promise settles: the
\* handler answers 200, or 500 from its catch.  out tells whether the
\* destination existed when the rename was carried out.
RenameCb(r) ==
  LET done == rename(fs, inflight[r].src, inflight[r].dst)
  IN /\ inflight[r].pc = "renaming"
     /\ fs' = done.fs
     /\ UNCHANGED <<procs, session, handle>>
     /\ inflight' = [inflight EXCEPT ![r] = Idle]
     /\ last' = [req |-> [op |-> inflight[r].op, serverName |-> inflight[r].serverName,
                          src |-> inflight[r].src, dst |-> inflight[r].dst],
                 path |-> api(inflight[r].serverName, <<inflight[r].op>>),
                 status |-> IF done.ok THEN 200 ELSE 500,
                 msg |-> IF ~done.ok
                         THEN (IF inflight[r].op = "move" THEN "Failed to move file"
                               ELSE "Failed to rename item")
                         ELSE IF inflight[r].op = "move" THEN "File moved successfully"
                         ELSE "Item renamed successfully",
                 calls |-> inflight[r].calls,
                 out |-> {[replaced |-> existsSync(fs, inflight[r].dst)]},
                 handler |-> TRUE, authed |-> TRUE]

\* s1 holds the files f and g and the directory d.
InitRace ==
  /\ fs = postFile(postFile(postDirectories(OneServer, "s1", <<>>, <<"d">>).fs,
                            "s1", <<>>, <<"f">>, "old").fs,
                   "s1", <<>>, <<"g">>, "new").fs
  /\ procs = <<>>
  /\ session = Admin
  /\ last = NoRequest
  /\ inflight = NoInflight
  /\ handle = "closed"

\* The two requests that overlap.
Racers == {1, 2}

NextRace ==
  \/ \E r \in Racers, oldName \in {<<"f">>, <<"g">>} :
       RenameBegin(r, "s1", <<>>, oldName, <<"h">>)
  \/ \E r \in Racers, rp \in {<<>>, <<"d">>}, dp \in {<<>>, <<"d">>} :
       MoveBegin(r, "s1", rp, <<"h">>, dp)
  \/ \E r \in Racers : RenameCb(r)
  \/ \E fn \in {<<"f">>, <<"h">>} : PostFile("s1", <<>>, fn, "newer")

SpecRace == InitRace /\ [][NextRace]_vars

ProperRoot(req) ==
  /\ Within(RootOf(req), serversDir)
  /\ Len(RootOf(req)) > Len(serversDir)

(* C26: for every server-name value a request can carry, '.' and '..'      *)
(* included, the instance root derived from it is a proper descendant of   *)
(* the servers directory: no request is served on another root, and delete *)
(* never removes the servers directory itself or anything outside it.      *)
C26_ProperInstanceRoot ==
  [][/\ (/\ last'.authed
         /\ "serverName" \in DOMAIN last'.req
         /\ last'.status = 200)
          => ProperRoot(last'.req)
     /\ (last'.req.op = "deleteServer" /\ last'.authed)
          => \A q \in DOMAIN fs :
               ~(Within(q, serversDir) /\ Len(q) > Len(serversDir))
                 => (q \in DOMAIN fs' /\ fs'[q] = fs[q])]_vars

(* C27: every registered process belongs to an existing server instance:   *)
(* start(name) registers a process only if the instance directory of name  *)
(* exists, and after delete(name) has succeeded no process named name is   *)
(* registered with PM2.                                                    *)
C27_ProcessHasInstance ==
  [][/\ (/\ last'.req.op = "start" /\ last'.authed
         /\ ~existsSync(fs, RootOf(last'.req)))
          => procs' = procs
     /\ (/\ last'.req.op = "deleteServer" /\ last'.authed
         /\ last'.status = 200)
          => Matching(procs', last'.req.serverName) = {}
     /\ (\A i \in 1..Len(procs) : existsSync(fs, join(serversDir, <<procs[i].name>>)))
          => \A i \in 1..Len(procs') : existsSync(fs', join(serversDir, <<procs'[i].name>>))]_vars

----------------------------------------------------------------------------
(* Overlapping uploads: two requests upload a file named f at overlapping  *)
(* times, the first to the root and the second to the directory d of s1    *)
(* or of the missing s2.                                                   *)

InitInterfere ==
  /\ fs = OneServerWithFile
  /\ procs = <<>>
  /\ session = Admin
  /\ last = NoRequest
  /\ inflight = NoInflight
  /\ handle = "closed"

\* The target directory and the bytes of each of the two requests.
RacerPath == <<<<>>, <<"d">>>>
RacerContent == <<"new", "newer">>

NextInterfere ==
  \/ \E r \in Racers, sn \in {"s1", "s2"} :
       UploadBegin(r, sn, RacerPath[r], <<File("f", RacerContent[r])>>)
  \/ \E r \in Racers : StageWrite(r)
  \/ \E r \in Racers : StageFinish(r)
  \/ \E r \in Racers : UploadHandler(r)
  \/ \E rp \in {<<>>, <<"d">>} : DeleteFile("s1", rp, <<"f">>)

SpecInterfere == InitInterfere /\ [][NextInterfere]_vars

(* C28: concurrent uploads do not interfere through the staging location:  *)
(* each request either relocates its own complete bytes to its own target  *)
(* or fails, and a request rejected after staging (containment error or    *)
(* server not found) leaves no staged file behind.                         *)
C28_StagingIsolated ==
  [][\A r \in Slots :
       (inflight[r].op = "upload" /\ inflight[r].pc = "handler" /\ inflight'[r] = Idle)
         => /\ last'.status = 200
                 => \A i \in 1..Len(inflight[r].files) :
                      /\ IsFile(fs', FinalPathOf(r, i))
                      /\ fs'[FinalPathOf(r, i)] = inflight[r].files[i].content
            /\ last'.status \in {400, 404}
                 => \A i \in 1..Len(inflight[r].files) :
                      ~existsSync(fs', StagedPath(inflight[r].files[i]))]_vars

\* The positions of the PM2 call named call among the calls of a request.
CallsOf(calls, call) == {i \in 1..Len(calls) : calls[i].call = call}

(* C29: every supervisor request leaves the PM2 connection balanced: on    *)
(* each exit path of status, start, stop, restart and sendCommand a        *)
(* successful connect is followed by exactly one disconnect, and no        *)
(* disconnect is issued when connect itself failed.                        *)
C29_ConnectionBalanced ==
  (last.req.op \in SupOps /\ last.authed)
    => /\ Cardinality(CallsOf(last.calls, "connect")) <= 1
       /\ (last.req.fault = "connect" \/ CallsOf(last.calls, "connect") = {})
            => CallsOf(last.calls, "disconnect") = {}
       /\ (last.req.fault # "connect" /\ CallsOf(last.calls, "connect") # {})
            => /\ Cardinality(CallsOf(last.calls, "disconnect")) = 1
               /\ \A i \in CallsOf(last.calls, "connect"),
                     j \in CallsOf(last.calls, "disconnect") : i < j
               /\ last.calls[Len(last.calls)].call = "disconnect"

\* start has answered 'Server not found' and has disconnected.
C29_Witness ==
  /\ last.req.op = "start"
  /\ last.authed
  /\ last.status = 404
  /\ CallsOf(last.calls, "disconnect") # {}

----------------------------------------------------------------------------
(* Batches: lists of the names f, g and d are moved between the root of s1 *)
(* and its directory d, while f and g are saved and deleted.               *)

InitBatch ==
  /\ fs = OneServerWithFile
  /\ procs = <<>>
  /\ session = Admin
  /\ last = NoRequest
  /\ inflight = NoInflight
  /\ handle = "closed"

BatchLists ==
  {<< <<"f">>, <<"g">> >>, << <<"g">>, <<"f">> >>, << <<"f">>, <<"d">>, <<"g">> >>}

NextBatch ==
  \/ \E fn \in {<<"f">>, <<"g">>} : PostFile("s1", <<>>, fn, "new")
  \/ \E rp \in MPaths, fn \in {<<"f">>, <<"g">>} : DeleteFile("s1", rp, fn)
  \/ \E rp \in MPaths, fns \in BatchLists, dp \in MPaths : MoveMultiple("s1", rp, fns, dp)

SpecBatch == InitBatch /\ [][NextBatch]_vars

\* The source and the destination of the i-th filename of a batch.
BatchSrc(req, i) == join(join(RootOf(req), req.relativePath), req.filenames[i])
BatchDst(req, i) == join(join(RootOf(req), req.destinationPath), req.filenames[i])

\* The entry at p is the same in f and g.
SameAt(f, g, p) == (p \in DOMAIN f <=> p \in DOMAIN g) /\ (p \in DOMAIN f => f[p] = g[p])

(* C30: move-multiple processes the filenames independently and in order:  *)
(* the results hold one entry per requested filename in request order; a   *)
(* filename whose source is missing or whose destination exists is         *)
(* reported as an error and neither its source nor its destination         *)
(* changes; such a failure does not keep the other filenames from being    *)
(* moved, and the response is a success.                                   *)
C30_MoveMultiple ==
  [][(/\ last'.req.op = "moveMultiple"
      /\ last'.authed
      /\ IsDir(fs, RootOf(last'.req))
      /\ IsDir(fs, join(RootOf(last'.req), last'.req.destinationPath)))
       => /\ last'.status = 200
          /\ Cardinality(last'.out) = 1
          /\ \A results \in last'.out :
               /\ Len(results) = Len(last'.req.filenames)
               /\ \A i \in 1..Len(results) :
                    /\ results[i].filename = last'.req.filenames[i]
                    /\ (\/ ~existsSync(fs, BatchSrc(last'.req, i))
                        \/ existsSync(fs, BatchDst(last'.req, i)))
                         => /\ results[i].status = "error"
                            /\ SameAt(fs, fs', BatchSrc(last'.req, i))
                            /\ SameAt(fs, fs', BatchDst(last'.req, i))
                    /\ (/\ IsFile(fs, BatchSrc(last'.req, i))
                        /\ ~existsSync(fs, BatchDst(last'.req, i)))
                         => /\ results[i].status = "success"
                            /\ ~existsSync(fs', BatchSrc(last'.req, i))
                            /\ IsFile(fs', BatchDst(last'.req, i))
                            /\ fs'[BatchDst(last'.req, i)] = fs[BatchSrc(last'.req, i)]]_vars

\* A batch whose first filename failed and whose second was moved.
C30_Witness ==
  /\ last.req.op = "moveMultiple"
  /\ last.status = 200
  /\ \A results \in last.out :
       /\ results[1].status = "error"
       /\ results[2].status = "success"

====
